---- MODULE Spec2Model ----
(***************************************************************************)
(* LASERLINK: the laser <-> SFC serial bridge (src/core/core.py), its      *)
(* configuration manager (src/core/__init__.py) and the continuous SFC    *)
(* port reader (src/core/core_serial.py).                                  *)
(*                                                                         *)
(* Texts are TLA+ strings; a character is a string of length one.  Bytes   *)
(* read from and written to the serial ports are ASCII in this model, so   *)
(* a byte string and its decoded text are written with the same literal.   *)
(***************************************************************************)
EXTENDS Integers, Sequences, FiniteSets, TLC

(***************************************************************************)
(* Bounds of the model.                                                    *)
(***************************************************************************)
\* highest modification time of the configuration file (it starts at 1)
MaxMtime == 2
\* longest incomplete laser text left waiting in the frame assembler
MaxBuf == 2
\* lines one SFCComReader emits
MaxSeq == 3
\* value of keep_lines the reader is constructed with
KeepLines == 2
\* the timeout argument of send_and_collect, in instants of the clock
Timeout == 2
\* tokens in a text passed to infer_status
MaxTokens == 2
\* rules in a rule list passed to should_break
MaxRules == 2
\* tokens in the value of TOKENS and in the value of ALWAYS_LAST
MaxRuleTokens == 2
\* calls of push on one FrameAssembler
MaxPushes == 3
\* lines in a list passed to _pick_best_line
MaxLines == 2
\* lines send_text_and_wait reads from the SFC port in one call
MaxSfcLines == 3
\* reads of the reader loop that return bytes
MaxReads == 3
\* scans and laser lines that ask for a GUI flow
MaxFlows == 2
\* longest unterminated text left in the reader's private buffer
MaxRxBuf == 4

(***************************************************************************)
(* Python values.                                                          *)
(***************************************************************************)
None == "<None>"
NoExc == [kind |-> "NoException", msg |-> ""]
CRLF == "\r\n"

(***************************************************************************)
(* str methods used by the program.                                        *)
(***************************************************************************)
Ch(s, i) == SubSeq(s, i, i)
LowerChars == "abcdefghijklmnopqrstuvwxyz"
UpperChars == "ABCDEFGHIJKLMNOPQRSTUVWXYZ"
UpperMap ==
    [c \in {Ch(LowerChars, i) : i \in 1..26} |->
        Ch(UpperChars, CHOOSE i \in 1..26 : Ch(LowerChars, i) = c)]
LowerMap ==
    [c \in {Ch(UpperChars, i) : i \in 1..26} |->
        Ch(LowerChars, CHOOSE i \in 1..26 : Ch(UpperChars, i) = c)]
UpperCh(c) == IF c \in DOMAIN UpperMap THEN UpperMap[c] ELSE c
LowerCh(c) == IF c \in DOMAIN LowerMap THEN LowerMap[c] ELSE c
RECURSIVE UpperFrom(_, _)
UpperFrom(s, i) ==
    IF i > Len(s) THEN "" ELSE UpperCh(Ch(s, i)) \o UpperFrom(s, i + 1)
RECURSIVE LowerFrom(_, _)
LowerFrom(s, i) ==
    IF i > Len(s) THEN "" ELSE LowerCh(Ch(s, i)) \o LowerFrom(s, i + 1)
\* s.upper(), s.lower(): a text without a letter of the other case is its own
\* conversion
Upper(s) ==
    IF \A i \in 1..Len(s) : Ch(s, i) \notin DOMAIN UpperMap THEN s ELSE UpperFrom(s, 1)
Lower(s) ==
    IF \A i \in 1..Len(s) : Ch(s, i) \notin DOMAIN LowerMap THEN s ELSE LowerFrom(s, 1)
\* sub in s
Contains(s, sub) ==
    \E i \in 1..(Len(s) - Len(sub) + 1) : SubSeq(s, i, i + Len(sub) - 1) = sub
EndsWith(s, suf) ==
    /\ Len(suf) <= Len(s)
    /\ SubSeq(s, Len(s) - Len(suf) + 1, Len(s)) = suf
StartsWith(s, pre) ==
    /\ Len(pre) <= Len(s)
    /\ SubSeq(s, 1, Len(pre)) = pre
Whitespace == {" ", "\t", "\n", "\r", "\f"}
RECURSIVE RStripChars(_, _)
RStripChars(s, chars) ==
    IF s # "" /\ Ch(s, Len(s)) \in chars
    THEN RStripChars(SubSeq(s, 1, Len(s) - 1), chars)
    ELSE s
RECURSIVE LStripChars(_, _)
LStripChars(s, chars) ==
    IF s # "" /\ Ch(s, 1) \in chars THEN LStripChars(Tail(s), chars) ELSE s
RStrip(s) == RStripChars(s, Whitespace)
Strip(s) == LStripChars(RStripChars(s, Whitespace), Whitespace)
Digits == {"0", "1", "2", "3", "4", "5", "6", "7", "8", "9"}

(***************************************************************************)
(* Break rules (BreakRule, should_break).                                  *)
(***************************************************************************)
BreakRule(mode, pattern) == [mode |-> mode, pattern |-> pattern]

RxNeedPsn == "NEEDPSN\\d+\\s*$"
RxHold == "PASSED=[01]"
RxStatus == "(PASSED=1|PASSED=0|PASS|FAIL)"
\* re.compile(pattern, re.IGNORECASE).search(text) for the patterns in use
RegexSearch(pattern, text) ==
    LET up == Upper(text)
    IN  CASE pattern = RxHold ->
                \E i \in 1..(Len(text) - 7) :
                    /\ SubSeq(up, i, i + 6) = "PASSED="
                    /\ Ch(text, i + 7) \in {"0", "1"}
          [] pattern = RxNeedPsn ->
                \E i \in 1..(Len(text) - 7) :
                    /\ SubSeq(up, i, i + 6) = "NEEDPSN"
                    /\ \E j \in (i + 7)..Len(text) :
                           /\ \A k \in (i + 7)..j : Ch(text, k) \in Digits
                           /\ \A k \in (j + 1)..Len(text) : Ch(text, k) \in Whitespace
          [] pattern = RxStatus ->
                Contains(up, "PASS") \/ Contains(up, "FAIL")
          [] OTHER -> FALSE

\* a should_break that tests END rules on the untrimmed text only
should_break_untrimmed(response, rules) ==
    LET up == Upper(response)
    IN  \E n \in 1..Len(rules) :
            LET r == rules[n]
            IN  CASE r.mode = "REGEX" -> RegexSearch(r.pattern, response)
                  [] r.mode = "END" -> EndsWith(up, r.pattern)
                  [] r.mode = "IN" -> Contains(up, r.pattern)
                  [] OTHER -> RegexSearch(r.pattern, response)

should_break(response, rules) ==
    LET up == Upper(response)
        up_stripped == RStrip(up)
    IN  \E n \in 1..Len(rules) :
            LET r == rules[n]
            IN  CASE r.mode = "REGEX" -> RegexSearch(r.pattern, response)
                  [] r.mode = "END" ->
                        EndsWith(up, r.pattern) \/ EndsWith(up_stripped, r.pattern)
                  [] r.mode = "IN" -> Contains(up, r.pattern)
                  [] OTHER -> RegexSearch(r.pattern, response)

(***************************************************************************)
(* FrameAssembler: buf, t0 (set or not) and rules are fields of the        *)
(* bridge record below (asm_buf, asm_t0, asm_rules).                       *)
(***************************************************************************)
\* a push that does not record when the frame began
push_without_t0(buf, t0, rules, chunk) ==
    IF chunk = ""
    THEN [buf |-> buf, t0 |-> t0, out |-> None]
    ELSE LET nb == buf \o chunk
         IN  IF should_break(nb, rules)
             THEN [buf |-> "", t0 |-> FALSE, out |-> Strip(nb)]
             ELSE [buf |-> nb, t0 |-> t0, out |-> None]

\* a push that returns the frame and keeps it in the buffer
push_keeps_frame(buf, t0, rules, chunk) ==
    IF chunk = ""
    THEN [buf |-> buf, t0 |-> t0, out |-> None]
    ELSE LET nb == buf \o chunk
         IN  IF should_break(nb, rules)
             THEN [buf |-> nb, t0 |-> TRUE, out |-> Strip(nb)]
             ELSE [buf |-> nb, t0 |-> TRUE, out |-> None]

\* FrameAssembler.push: the new buffer, the new t0 and the returned frame
push(buf, t0, rules, chunk) ==
    IF chunk = ""
    THEN [buf |-> buf, t0 |-> t0, out |-> None]
    ELSE LET nb == buf \o chunk
         IN  IF should_break(nb, rules)
             THEN [buf |-> "", t0 |-> FALSE, out |-> Strip(nb)]
             ELSE [buf |-> nb, t0 |-> TRUE, out |-> None]

\* FrameAssembler.reset applied to the bridge's assembler
asm_reset(b) == [b EXCEPT !.asm_buf = "", !.asm_t0 = FALSE]

(***************************************************************************)
(* Status classifier.                                                      *)
(***************************************************************************)
\* a classification that does not know the PASSED=1 marker
infer_status_without_passed_1(text) ==
    LET up == Upper(text)
    IN  IF Contains(up, "PASSED=0") \/ Contains(up, "FAIL") \/ Contains(up, "ERRO")
        THEN "FAIL"
        ELSE IF Contains(up, " PASS") \/ EndsWith(up, "PASS")
             THEN "PASS"
             ELSE None

\* a classification that looks for the PASS markers first
infer_status_pass_first(text) ==
    LET up == Upper(text)
    IN  IF Contains(up, "PASSED=1") \/ Contains(up, " PASS") \/ EndsWith(up, "PASS")
        THEN "PASS"
        ELSE IF Contains(up, "PASSED=0") \/ Contains(up, "FAIL") \/ Contains(up, "ERRO")
             THEN "FAIL"
             ELSE None

infer_status(text) ==
    LET up == Upper(text)
    IN  IF Contains(up, "PASSED=0") \/ Contains(up, "FAIL") \/ Contains(up, "ERRO")
        THEN "FAIL"
        ELSE IF Contains(up, "PASSED=1") \/ Contains(up, " PASS") \/ EndsWith(up, "PASS")
             THEN "PASS"
             ELSE None

(***************************************************************************)
(* Configuration: the file on disk and the ConfigManager cache.            *)
(***************************************************************************)
RulesA == << BreakRule("END", "END"), BreakRule("REGEX", RxNeedPsn),
             BreakRule("IN", "NEEDPSN") >>
RulesB == << BreakRule("IN", "AB") >>
\* the content of the configuration file when the program starts
ConfigA == [laser |-> "COM1", sfc |-> "COM2", rules |-> RulesA, bad |-> FALSE]
ConfigB == [laser |-> "COM3", sfc |-> "COM4", rules |-> RulesB, bad |-> FALSE]
\* a file configparser cannot parse
ConfigBad == [laser |-> "COM1", sfc |-> "COM2", rules |-> RulesA, bad |-> TRUE]
\* contents the configuration file is rewritten with
DiskContents == {ConfigB, ConfigBad}

\* ConfigManager.reload(force=True) on a readable file: the new cache
reload(d) ==
    [mtime |-> d.mtime, laser |-> d.content.laser, sfc |-> d.content.sfc,
     rules |-> d.content.rules]

\* ConfigManager.reload_if_changed: new cache, returned flag, raised exception
reload_if_changed(c, d) ==
    IF d.mtime # c.mtime
    THEN IF d.content.bad
         THEN [c |-> c, ret |-> FALSE,
               exc |-> [kind |-> "ParsingError", msg |-> "Source contains parsing errors"]]
         ELSE [c |-> reload(d), ret |-> TRUE, exc |-> NoExc]
    ELSE [c |-> c, ret |-> FALSE, exc |-> NoExc]

\* the ConfigManager.com / ConfigManager.rules properties: reload, then read
cfg_property(c, d) == reload_if_changed(c, d)

\* what the file can be when the tick under way reads it next: d, as it was
\* at the last read, or rewritten since; d0 is the file when the tick began,
\* and the file is rewritten at most once while one tick executes
FileNow(d0, d) ==
    {d} \cup {[mtime |-> d.mtime + 1, content |-> content] :
                 content \in IF d = d0 /\ d.mtime < MaxMtime
                             THEN DiskContents ELSE {}}

(***************************************************************************)
(* What the environment can do to the bridge during a tick.                *)
(***************************************************************************)
\* what ser_laser.readline() returns with timeout=0 ("" = nothing waiting)
LaserChunks == {"", "AB", "C END\r\n"}
\* text send_text_and_wait has accumulated from the SFC port at its deadline
SfcResponses == {"", "MO1,PF2AS04TE,PASSED=1\r\n", "MO1,SOME,OTHER\r\n",
                 "x,passed=0,FAIL03PASS\r\n"}
OpenErrors == {[kind |-> "SerialException", msg |-> "could not open port"]}
ReadErrors == {[kind |-> "SerialException", msg |-> "device disconnected"]}
WriteErrors == {[kind |-> "SerialTimeoutException", msg |-> "Write timeout"]}
\* serial.SerialException and its subclasses
SerialExceptionKinds == {"SerialException", "SerialTimeoutException"}
\* what send_text_and_wait can raise inside its try block
SfcErrors == {[kind |-> "SerialException", msg |-> "could not open port"],
              [kind |-> "SerialTimeoutException", msg |-> "Write timeout"],
              [kind |-> "OSError", msg |-> "cannot write capture file"]}
ObserverErrors == {[kind |-> "RuntimeError", msg |-> "observer failed"]}

(***************************************************************************)
(* send_text_and_wait: (ok, text) or an exception that is not a            *)
(* SerialException.                                                        *)
(***************************************************************************)
\* a return that reports a response with FAIL or ERRO as a failure
send_text_and_wait_return_fail_checked(response) ==
    IF Strip(response) = ""
    THEN [ok |-> FALSE, resp |-> "No response (timeout)", exc |-> NoExc]
    ELSE IF Contains(Upper(response), "FAIL") \/ Contains(Upper(response), "ERRO")
    THEN [ok |-> FALSE, resp |-> "COM2 FAIL/ERRO - " \o Strip(response), exc |-> NoExc]
    ELSE [ok |-> TRUE, resp |-> Strip(Strip(response)), exc |-> NoExc]

send_text_and_wait_return(response) ==
    IF Strip(response) # ""
    THEN [ok |-> TRUE, resp |-> Strip(Strip(response)), exc |-> NoExc]
    ELSE [ok |-> FALSE, resp |-> "No response (timeout)", exc |-> NoExc]

send_text_and_wait_except(e) ==
    IF e.kind \in SerialExceptionKinds
    THEN [ok |-> FALSE, resp |-> "Serial error: " \o e.msg, exc |-> NoExc]
    ELSE [ok |-> FALSE, resp |-> "", exc |-> e]

send_text_and_wait(text, port) ==
    {send_text_and_wait_return(r) : r \in SfcResponses}
        \cup {send_text_and_wait_except(e) : e \in SfcErrors}

(***************************************************************************)
(* LaserSfcBridge.  The bridge is a record of the object's attributes.     *)
(***************************************************************************)
HOLD_RX == RxHold

\* the configuration versions (mtime of the cache) a tick read the laser
\* port, the rule set and the SFC port from; 0 = not read in this tick
NoVer == [laser |-> 0, rules |-> 0, sfc |-> 0]

\* LaserSfcBridge.__init__ on the cache c of its ConfigManager
bridge_init(c, break_on_reload, on_result) ==
    [break_on_reload |-> break_on_reload, on_result |-> on_result,
     ser_laser |-> None, cur_laser_port |-> "",
     asm_rules |-> c.rules, asm_buf |-> "", asm_t0 |-> FALSE,
     running |-> FALSE, mode |-> "Idle", last_error |-> "", last_status |-> "",
     last_laser_req |-> "", last_sfc_resp |-> "", chain_active |-> FALSE,
     stop_event |-> FALSE]

\* close() that also forgets the chain
close_resets_chain(b) ==
    [b EXCEPT !.ser_laser = None, !.cur_laser_port = "", !.chain_active = FALSE]

close(b) == [b EXCEPT !.ser_laser = None, !.cur_laser_port = ""]

\* an except branch that logs the failure without recording it
open_laser_failed_not_recorded(b, e) ==
    [b EXCEPT !.ser_laser = None, !.cur_laser_port = ""]

\* the except branch of _ensure_laser_open
open_laser_failed(b, e) ==
    close([b EXCEPT !.mode = "Error", !.last_error = "Open LASER failed: " \o e.msg])

\* the break_on_reload branch of _ensure_laser_open
reload_break(b) ==
    asm_reset([b EXCEPT !.mode = IF b.ser_laser # None THEN "Listening" ELSE "Idle",
                        !.chain_active = FALSE])

\* _ensure_laser_open, lines 168-186: the handle is kept, opened or the open
\* fails
ensure_open(b1, c, d, laser_port, ver) ==
    IF b1.ser_laser # None /\ b1.ser_laser = laser_port
    THEN {[b |-> b1, c |-> c, d |-> d, ok |-> TRUE, exc |-> NoExc,
           opened |-> "no", ver |-> ver]}
    ELSE {[b |-> asm_reset([close(b1) EXCEPT !.ser_laser = laser_port]),
           c |-> c, d |-> d, ok |-> TRUE, exc |-> NoExc, opened |-> "ok",
           ver |-> ver]}
         \cup
         {[b |-> open_laser_failed(close(b1), e),
           c |-> c, d |-> d, ok |-> TRUE, exc |-> NoExc, opened |-> "failed",
           ver |-> ver]
             : e \in OpenErrors}

\* _ensure_laser_open, line 166: self.laser_asm.rules = self.cfg.rules
ensure_read_rules(b, c, d0, d, laser_port, ver) ==
    LET r3 == cfg_property(c, d)
    IN  IF r3.exc # NoExc
        THEN {[b |-> b, c |-> r3.c, d |-> d, ok |-> FALSE, exc |-> r3.exc,
               opened |-> "no", ver |-> ver]}
        ELSE ensure_open([b EXCEPT !.asm_rules = r3.c.rules], r3.c, d, laser_port,
                         [ver EXCEPT !.rules = r3.c.mtime])

\* _ensure_laser_open, lines 161-163: com = self.cfg.com
ensure_read_com(b, c, d0, d, ver) ==
    LET r2 == cfg_property(c, d)
        laser_port == r2.c.laser
    IN  IF r2.exc # NoExc
        THEN {[b |-> b, c |-> r2.c, d |-> d, ok |-> FALSE, exc |-> r2.exc,
               opened |-> "no", ver |-> ver]}
        ELSE UNION {ensure_read_rules([b EXCEPT !.cur_laser_port = laser_port],
                                      r2.c, d0, d3, laser_port,
                                      [ver EXCEPT !.laser = r2.c.mtime])
                      : d3 \in FileNow(d0, d)}

\* _ensure_laser_open: the outcomes [b, c, d, ok, exc, opened, ver]; d is the
\* file as the call last saw it, ver the configuration versions it read the
\* laser port and the rules from
ensure_laser_open(b, c, d) ==
    LET r1 == reload_if_changed(c, d)
    IN  IF r1.exc # NoExc
        THEN {[b |-> b, c |-> r1.c, d |-> d, ok |-> FALSE, exc |-> r1.exc,
               opened |-> "no", ver |-> NoVer]}
        ELSE IF r1.ret /\ b.break_on_reload
        THEN {[b |-> reload_break(b), c |-> r1.c, d |-> d, ok |-> FALSE,
               exc |-> NoExc, opened |-> "no", ver |-> NoVer]}
        ELSE UNION {ensure_read_com(b, r1.c, d, d2, NoVer) : d2 \in FileNow(d, d)}

\* _read_laser_frame_nonblock: the outcomes [b, frame, exc]
read_laser_frame_nonblock(b) ==
    IF b.ser_laser = None
    THEN {[b |-> b, frame |-> None, exc |-> NoExc]}
    ELSE {[b |-> b, frame |-> None, exc |-> e] : e \in ReadErrors}
         \cup
         {[b |-> [b EXCEPT !.asm_buf = p.buf, !.asm_t0 = p.t0],
           frame |-> p.out, exc |-> NoExc]
            : p \in {q \in {push(b.asm_buf, b.asm_t0, b.asm_rules, chunk)
                               : chunk \in LaserChunks} :
                         Len(q.buf) <= MaxBuf}}

\* _write_back_to_laser: the bytes written and the exception raised
write_back_to_laser(b, text) ==
    IF b.ser_laser = None
    THEN {[tx |-> "", exc |-> NoExc]}
    ELSE {[tx |-> RStripChars(text, {"\r", "\n"}) \o CRLF, exc |-> NoExc]}
         \cup {[tx |-> "", exc |-> e] : e \in WriteErrors}

is_hold_point(sfc_resp) == RegexSearch(HOLD_RX, sfc_resp)

\* the arguments of a callback that was not called
NoArgs == <<"", "", "">>

\* self.on_result(status, req, resp), when one is set: how the call ends and
\* the arguments it was given
call_on_result(b, status, req, resp) ==
    IF b.on_result
    THEN {[obs |-> "returned", exc |-> NoExc, args |-> <<status, req, resp>>]}
         \cup {[obs |-> "raised", exc |-> e, args |-> <<status, req, resp>>]
                  : e \in ObserverErrors}
    ELSE {[obs |-> "not_called", exc |-> NoExc, args |-> NoArgs]}

(***************************************************************************)
(* LaserSfcBridge.step.  A tick record says what one call of step did:     *)
(* the event it returned (Raised when an exception left step), the laser   *)
(* frame it got, how the SFC call and the observer call ended (and the     *)
(* arguments the observer was given), the bytes                            *)
(* it wrote to the laser port, whether it tried to open the laser port,    *)
(* the exception raised inside it, the mode, chain flag and handle it      *)
(* started from, and the configuration versions it read its ports and      *)
(* rules from.  The configuration file can be rewritten while a tick       *)
(* executes: every read of the file inside the tick sees the file as it is *)
(* at that moment.                                                         *)
(***************************************************************************)
Raised == "<raised>"
NoTick ==
    [ev |-> None, frame |-> None, sfc |-> "not_called", obs |-> "not_called",
     obs_args |-> NoArgs, tx |-> "", opened |-> "no", exc |-> NoExc,
     mode0 |-> None, chain0 |-> FALSE, ser0 |-> None,
     ver |-> NoVer]

\* an except clause that records the error and leaves the mode as it is
step_except_keeps_mode(b, e) ==
    [b |-> [b EXCEPT !.last_error = e.msg], ev |-> "ERROR"]

\* an except clause that catches serial.SerialException only
step_except_serial_only(b, e) ==
    IF e.kind \in SerialExceptionKinds
    THEN [b |-> [b EXCEPT !.mode = "Error", !.last_error = e.msg], ev |-> "ERROR"]
    ELSE [b |-> b, ev |-> Raised]

\* the except clause of step: the bridge afterwards and the value returned
step_except(b, e) ==
    [b |-> [b EXCEPT !.mode = "Error", !.last_error = e.msg], ev |-> "ERROR"]

step_return(b, c, d, t, ev) == [b |-> b, c |-> c, d |-> d, t |-> [t EXCEPT !.ev = ev]]

step_raise(b, c, d, t, e) ==
    LET h == step_except(b, e)
    IN  [b |-> h.b, c |-> c, d |-> d, t |-> [t EXCEPT !.ev = h.ev, !.exc = e]]

\* the tick record after the call o of the observer
observed(t, o) == [t EXCEPT !.obs = o.obs, !.obs_args = o.args]

\* lines 270-301: after send_text_and_wait returned s
step_after_sfc(b, c, d, t, frame, s) ==
    IF s.exc # NoExc
    THEN {step_raise(b, c, d, [t EXCEPT !.sfc = "raised"], s.exc)}
    ELSE IF ~s.ok
    THEN LET b3 == [b EXCEPT !.last_status =
                                 IF Contains(Lower(s.resp), "timeout")
                                 THEN "TIMEOUT" ELSE "SFC_ERROR",
                             !.last_sfc_resp = s.resp]
             t3 == [t EXCEPT !.sfc = "failed"]
         IN  {IF o.exc # NoExc
              THEN step_raise(b3, c, d, observed(t3, o), o.exc)
              ELSE step_return([b3 EXCEPT !.chain_active = FALSE, !.mode = "Listening"],
                               c, d, observed(t3, o),
                               IF b3.last_status = "TIMEOUT"
                               THEN "SFC_TIMEOUT" ELSE "SFC_ERROR")
                : o \in call_on_result(b3, b3.last_status, frame, b3.last_sfc_resp)}
    ELSE LET st == infer_status(s.resp)
             b3 == [b EXCEPT !.last_sfc_resp = s.resp,
                             !.last_status = IF st = None THEN "UNKNOWN" ELSE st]
             t3 == [t EXCEPT !.sfc = "ok"]
         IN  UNION {
               IF o.exc # NoExc
               THEN {step_raise(b3, c, d, observed(t3, o), o.exc)}
               ELSE IF is_hold_point(s.resp)
               THEN {step_return([b3 EXCEPT !.chain_active = FALSE, !.mode = "Listening"],
                                 c, d, observed(t3, o), "HOLD")}
               ELSE {IF w.exc # NoExc
                     THEN step_raise(b3, c, d, [observed(t3, o) EXCEPT !.tx = w.tx], w.exc)
                     ELSE step_return(b3, c, d, [observed(t3, o) EXCEPT !.tx = w.tx],
                                      "SFC_OK")
                       : w \in write_back_to_laser(b3, s.resp)}
                 : o \in call_on_result(b3, b3.last_status, frame, s.resp)}

\* lines 259-268: com = self.cfg.com on the file as it is now, then the SFC
\* transaction on com.COM_SFC
step_read_com(b2, c, d, t2, frame) ==
    LET com == cfg_property(c, d)
    IN  IF com.exc # NoExc
        THEN {step_raise(b2, com.c, d, t2, com.exc)}
        ELSE UNION {step_after_sfc(b2, com.c, d, [t2 EXCEPT !.ver.sfc = com.c.mtime],
                                   frame, s)
                      : s \in send_text_and_wait(frame, com.c.sfc)}

\* lines 244-257: after _read_laser_frame_nonblock returned r
step_after_read(r, c, t, d0, d) ==
    IF r.exc # NoExc
    THEN {step_raise(r.b, c, d, t, r.exc)}
    ELSE IF r.frame = None \/ r.frame = ""
    THEN {step_return([r.b EXCEPT !.mode = IF r.b.chain_active
                                           THEN "Testing" ELSE "Listening"],
                      c, d, t, "IDLE")}
    ELSE LET b2 == [r.b EXCEPT !.last_laser_req = r.frame, !.last_sfc_resp = "",
                               !.last_status = "", !.chain_active = TRUE,
                               !.mode = "Testing"]
             t2 == [t EXCEPT !.frame = r.frame]
         IN  UNION {step_read_com(b2, c, d4, t2, r.frame) : d4 \in FileNow(d0, d)}

\* lines 236-242: after _ensure_laser_open returned e
step_after_ensure(e, t, d0) ==
    LET t1 == [t EXCEPT !.opened = e.opened, !.ver = e.ver]
    IN  IF e.exc # NoExc
        THEN {step_raise(e.b, e.c, e.d, t1, e.exc)}
        ELSE IF ~e.ok /\ e.b.break_on_reload
        THEN {step_return(e.b, e.c, e.d, t1, "RELOAD_BREAK")}
        ELSE IF e.b.mode = "Error"
        THEN {step_return(e.b, e.c, e.d, t1, "ERROR")}
        ELSE UNION {step_after_read(r, e.c, t1, d0, e.d)
                      : r \in read_laser_frame_nonblock(e.b)}

\* step: every [b, c, d, t] one call can end in, from bridge b and cache c,
\* with the file being d when the call begins; d in the outcome is the file
\* when the call returns
step(b, c, d) ==
    LET t0 == [NoTick EXCEPT !.mode0 = b.mode, !.chain0 = b.chain_active,
                             !.ser0 = b.ser_laser]
        b1 == [b EXCEPT !.running = TRUE,
                        !.mode = IF b.mode \in {"Idle", "Stopped"}
                                 THEN "Listening" ELSE b.mode]
    IN  UNION {step_after_ensure(e, t0, d) : e \in ensure_laser_open(b1, c, d)}

(***************************************************************************)
(* SFCComReader (core_serial.py).  The reader is a record of the object's  *)
(* attributes; th is its thread (new, running, failed), pending the lines  *)
(* the loop iteration under way still has to emit, emit_pc the position    *)
(* inside _emit_line, write_lock the thread holding _write_lock, out_buf   *)
(* the bytes written to the port and not flushed yet, tx the payload of    *)
(* the last send that returned.                                            *)
(*                                                                         *)
(* The program uses time only in the differences now - t0 and              *)
(* now - _last_rx_time, which it compares with timeout and                 *)
(* idle_after_last_rx.  The model keeps the differences: an age is the     *)
(* time that has passed since an instant, counted up to the value it is    *)
(* compared with.  last_rx_age is the age of _last_rx_time (NoAge while    *)
(* _last_rx_time is 0.0); last_read_age is the age of the last read that   *)
(* returned bytes, which the program does not record.                      *)
(***************************************************************************)
\* bytes the SFC device sends in one piece
RxChunks == {"ACK\r\n", "PASS", "ED=1\r\n"}
\* the idle_after_last_rx argument of send_and_collect
IdleAfter == 1
NoAge == -1

Min(a, b) == IF a < b THEN a ELSE b

\* an age after one more instant
Older(age, cap) == IF age = NoAge THEN NoAge ELSE Min(age + 1, cap)

\* RxLine: t, the time of the emission, is never read by the program and is
\* left out of the record
RxLine(seq, t, text) == [seq |-> seq, text |-> text]

reader_init ==
    [ready |-> FALSE, th |-> "new", rx_buf |-> "", lines |-> << >>, seq |-> 0,
     last_rx_age |-> NoAge, last_read_age |-> NoAge, pending |-> << >>,
     emit_pc |-> "seq", write_lock |-> None, out_buf |-> "", tx |-> ""]

snapshot_seq(r) == r.seq

RECURSIVE SelectTexts(_, _)
SelectTexts(lines, seq0) ==
    IF lines = << >> THEN << >>
    ELSE IF Head(lines).seq > seq0
         THEN <<Head(lines).text>> \o SelectTexts(Tail(lines), seq0)
         ELSE SelectTexts(Tail(lines), seq0)

\* a get_lines_since that also returns the line the mark was taken at
get_lines_since_inclusive(r, seq0) == SelectTexts(r.lines, seq0 - 1)

get_lines_since(r, seq0) == SelectTexts(r.lines, seq0)

\* a deque without maxlen
deque_append_unbounded(lines, x) == Append(lines, x)

\* deque(maxlen=keep_lines).append
deque_append(lines, x) ==
    IF Len(lines) >= KeepLines
    THEN Append(SubSeq(lines, Len(lines) - KeepLines + 2, Len(lines)), x)
    ELSE Append(lines, x)

\* a counter that starts again after two lines
emit_line_seq_wraps(r) ==
    [r EXCEPT !.seq = (r.seq % 2) + 1, !.last_rx_age = 0, !.emit_pc = "append"]

\* _emit_line, lines 175-176
emit_line_seq(r) ==
    [r EXCEPT !.seq = r.seq + 1, !.last_rx_age = 0, !.emit_pc = "append"]

\* _emit_line, lines 177-178
emit_line_append(r) ==
    [r EXCEPT !.lines = deque_append(r.lines, RxLine(r.seq, 0, Head(r.pending))),
              !.pending = Tail(r.pending),
              !.emit_pc = "seq"]

RECURSIVE RemoveChar(_, _)
RemoveChar(s, c) ==
    IF s = "" THEN ""
    ELSE IF Ch(s, 1) = c THEN RemoveChar(Tail(s), c)
         ELSE Ch(s, 1) \o RemoveChar(Tail(s), c)

\* index of the first newline of buf, 0 when there is none
NewlineAt(buf) ==
    IF \E i \in 1..Len(buf) : Ch(buf, i) = "\n"
    THEN CHOOSE i \in 1..Len(buf) :
             Ch(buf, i) = "\n" /\ \A j \in 1..(i - 1) : Ch(buf, j) # "\n"
    ELSE 0

\* a loop that cuts one line from rx_buf for each read
split_lines_once(buf) ==
    LET n == NewlineAt(buf)
    IN  IF n = 0
        THEN [lines |-> << >>, rest |-> buf]
        ELSE LET text == Strip(RemoveChar(SubSeq(buf, 1, n - 1), "\r"))
             IN  [lines |-> IF text # "" THEN <<text>> ELSE << >>,
                  rest |-> SubSeq(buf, n + 1, Len(buf))]

\* the while loop of _reader_loop that cuts rx_buf at newlines: the texts to
\* emit and what stays in rx_buf
RECURSIVE split_lines(_)
split_lines(buf) ==
    LET n == NewlineAt(buf)
    IN  IF n = 0
        THEN [lines |-> << >>, rest |-> buf]
        ELSE LET text == Strip(RemoveChar(SubSeq(buf, 1, n - 1), "\r"))
                 more == split_lines(SubSeq(buf, n + 1, Len(buf)))
             IN  [lines |-> (IF text # "" THEN <<text>> ELSE << >>) \o more.lines,
                  rest |-> more.rest]

score(ln) ==
    LET up == Upper(ln)
    IN  (IF Contains(up, "PASS") \/ Contains(up, "FAIL") THEN 100 ELSE 0)
        + (IF Contains(up, "PASSED=1") \/ Contains(up, "PASSED=0") THEN 30 ELSE 0)
        + (IF Contains(up, "ERRO") \/ Contains(up, "TIMEOUT") THEN 50 ELSE 0)
        + (IF StartsWith(up, "$") THEN 10 ELSE 0)
        + (Min(Len(ln), 120) \div 20)

\* a choice that takes the first line collected
pick_best_line_first(lines) ==
    IF lines = << >> THEN "" ELSE lines[1]

\* max(lines, key=score): the first line of maximal score
pick_best_line(lines) ==
    IF lines = << >> THEN ""
    ELSE lines[CHOOSE i \in 1..Len(lines) :
                   /\ \A j \in 1..Len(lines) : score(lines[j]) <= score(lines[i])
                   /\ \A j \in 1..(i - 1) : score(lines[j]) < score(lines[i])]

\* the caller of send_and_collect: its position and local variables; t0 is
\* kept as elapsed, the age of t0.  first is the sequence number that the
\* first line read from the port after the command was written gets, rcvd
\* the texts of the lines from first on that the reader has emitted; the
\* program records neither.
sac_idle ==
    [pc |-> "idle", cmd |-> "", expect |-> None, clear_before_send |-> FALSE,
     seq0 |-> 0, elapsed |-> 0, matched |-> FALSE, first |-> 0, rcvd |-> << >>,
     result |-> [ok |-> FALSE, best |-> "", lines |-> << >>, exc |-> NoExc]]

sac_return(c, ok, lines) ==
    [c EXCEPT !.pc = "done",
              !.result = [ok |-> ok, best |-> pick_best_line(lines),
                          lines |-> lines, exc |-> NoExc]]

\* an exception leaves send_and_collect
sac_raise(c, e) ==
    [c EXCEPT !.pc = "done",
              !.result = [ok |-> FALSE, best |-> "", lines |-> << >>, exc |-> e]]

\* a return at the deadline that hands back no lines
sac_timeout_without_lines(c, r) == sac_return(c, FALSE, << >>)

\* lines 169-171: the return at the deadline
sac_timeout(c, r) == sac_return(c, FALSE, get_lines_since(r, c.seq0))

\* a completion rule that does not wait for the match
sac_complete_without_match(c, r, matched) ==
    /\ r.last_rx_age # NoAge
    /\ r.last_rx_age >= IdleAfter

\* a completion rule that does not look at the silence
sac_complete_without_idle(c, r, matched) == c.expect = None \/ matched

\* lines 160-162: the completion rule
sac_complete(c, r, matched) ==
    /\ c.expect = None \/ matched
    /\ r.last_rx_age # NoAge
    /\ r.last_rx_age >= IdleAfter

\* lines 153-157: the sticky match over the collected lines
sac_matched(c, lines) ==
    \/ c.matched
    \/ /\ c.expect # None
       /\ \E i \in 1..Len(lines) : RegexSearch(c.expect, lines[i])

\* a thread calling send or clear_input_buffer: its position, the call and
\* the payload it writes
sender_idle == [pc |-> "idle", op |-> "", payload |-> "", exc |-> NoExc]
Senders == {"s1", "s2"}
SenderCommands == {"Q1", "MO2"}

\* the text passed to infer_status is a concatenation of these
StatusTokens == {"PASSED=0", "fail", "Erro", "PASSED=1", " pass", "PASS", "x,", "\r\n"}
NotCalled == "<not called>"

(***************************************************************************)
(* LASERLINKAPP (gui_Laser_NeedPSN_trigger.py): the flow started from the  *)
(* UI and the background COM_LASER listener.  The app record holds         *)
(* _flow_running, _oflow_run_evt (run_evt), _oflow_ser (oflow_ser), the    *)
(* DONE events waiting in _flow_q (the LOG and STAGE events, which         *)
(* _poll_flow_events only displays, are left out), the MONEYSN events      *)
(* waiting in _oflow_q, real_total, the position of the UI thread inside   *)
(* _start_flow_from_ui (ui_pc), of the listener thread inside one          *)
(* iteration of _open_flow_core_loop (lis_pc) and of each flow worker      *)
(* (wk).  flows counts the workers started and dones the DONE events each  *)
(* worker has put, triggers the scans and laser lines so far; the program  *)
(* records none of the three.                                              *)
(***************************************************************************)
\* flows the operator or the laser can start
Flows == 1..MaxFlows

\* LASERLINKAPP.__init__ (lines 1284-1310): no flow, the listener running
app_init ==
    [flow_running |-> FALSE, run_evt |-> TRUE, oflow_ser |-> None,
     flow_q |-> 0, oflow_q |-> 0, real_total |-> 0, triggers |-> 0,
     ui_pc |-> "idle", lis_pc |-> "check_run",
     flows |-> 0, wk |-> [k \in Flows |-> "none"], dones |-> [k \in Flows |-> 0]]

\* open_flow_core_pause (lines 2378-2394)
open_flow_core_pause(a) == [a EXCEPT !.run_evt = FALSE, !.oflow_ser = None]

\* open_flow_core_resume (lines 2402-2414)
open_flow_core_resume(a) == [a EXCEPT !.run_evt = TRUE]

\* emit("DONE", ...) by worker k (lines 1836-1837)
emit_done(a, k) == [a EXCEPT !.flow_q = @ + 1, !.dones[k] = @ + 1]

(***************************************************************************)
(* The state: one bridge with its ConfigManager, the configuration file,   *)
(* the thread running run_forever, and the tick that has just returned     *)
(* (NoTick after any other operation); one SFCComReader, the thread that   *)
(* calls its send_and_collect, and the threads that call its send and      *)
(* clear_input_buffer; one call of a function of the program; the GUI      *)
(* application with its UI thread, its listener thread and its flow        *)
(* workers.                                                                *)
(***************************************************************************)
VARIABLES bridge, cfg, disk, rf_pc, tick, reader, sac, senders, call, app

bvars == <<bridge, cfg, disk, rf_pc, tick>>
rvars == <<reader, sac, senders>>
vars == <<bridge, cfg, disk, rf_pc, tick, reader, sac, senders, call, app>>

NoCall == [fn |-> "", arg |-> "", ret |-> NotCalled]

InitReader ==
    /\ reader = reader_init
    /\ sac = sac_idle
    /\ senders = [w \in Senders |-> sender_idle]

Init ==
    /\ disk = [mtime |-> 1, content |-> ConfigA]
    /\ cfg = reload(disk)
    /\ \E break_on_reload \in BOOLEAN, on_result \in BOOLEAN :
           bridge = bridge_init(cfg, break_on_reload, on_result)
    /\ rf_pc = "not_running"
    /\ tick = NoTick
    /\ InitReader
    /\ app = app_init
    /\ call = NoCall

\* the configuration file is rewritten (GUI save or an editor)
ConfigChange ==
    /\ disk.mtime < MaxMtime
    /\ \E content \in DiskContents :
           disk' = [mtime |-> disk.mtime + 1, content |-> content]
    /\ tick' = NoTick
    /\ UNCHANGED <<bridge, cfg, rf_pc>>
    /\ UNCHANGED <<reader, sac, senders, call, app>>

\* request_stop(), from any thread, at any moment after run_forever has been
\* called (a stop requested while no run_forever is under way is forgotten by
\* line 317 before anything reads it)
RequestStop ==
    /\ rf_pc # "not_running"
    /\ bridge' = [bridge EXCEPT !.stop_event = TRUE]
    /\ tick' = NoTick
    /\ UNCHANGED <<cfg, disk, rf_pc>>
    /\ UNCHANGED <<reader, sac, senders, call, app>>

\* step() called by a scheduler while run_forever is not running
Step ==
    /\ rf_pc = "not_running"
    /\ \E r \in step(bridge, cfg, disk) :
           /\ bridge' = r.b
           /\ cfg' = r.c
           /\ disk' = r.d
           /\ tick' = r.t
    /\ UNCHANGED rf_pc
    /\ UNCHANGED <<reader, sac, senders, call, app>>

\* run_forever is called (a thread is started on it)
RunForeverCall ==
    /\ rf_pc = "not_running"
    /\ rf_pc' = "called"
    /\ tick' = NoTick
    /\ UNCHANGED <<bridge, cfg, disk>>
    /\ UNCHANGED <<reader, sac, senders, call, app>>

\* run_forever, lines 317-319
RunForeverStart ==
    /\ rf_pc = "called"
    /\ bridge' = [bridge EXCEPT !.stop_event = FALSE, !.running = TRUE,
                                !.mode = "Listening"]
    /\ rf_pc' = "loop"
    /\ tick' = NoTick
    /\ UNCHANGED <<cfg, disk>>
    /\ UNCHANGED <<reader, sac, senders, call, app>>

\* run_forever, one iteration of the while loop (lines 320-327)
RunForeverTick ==
    /\ rf_pc = "loop"
    /\ ~bridge.stop_event
    /\ \E r \in step(bridge, cfg, disk) :
           /\ bridge' = r.b
           /\ cfg' = r.c
           /\ disk' = r.d
           /\ tick' = r.t
           /\ rf_pc' = IF r.t.ev \in {"RELOAD_BREAK", Raised} THEN "finally" ELSE "loop"
    /\ UNCHANGED <<reader, sac, senders, call, app>>

\* run_forever, the loop condition finds the stop event set
RunForeverStop ==
    /\ rf_pc = "loop"
    /\ bridge.stop_event
    /\ rf_pc' = "finally"
    /\ tick' = NoTick
    /\ UNCHANGED <<bridge, cfg, disk>>
    /\ UNCHANGED <<reader, sac, senders, call, app>>

\* the finally clause of run_forever (lines 328-331)
run_forever_finally(b) == close([b EXCEPT !.running = FALSE, !.mode = "Stopped"])

RunForeverFinally ==
    /\ rf_pc = "finally"
    /\ bridge' = run_forever_finally(bridge)
    /\ rf_pc' = "not_running"
    /\ tick' = NoTick
    /\ UNCHANGED <<cfg, disk>>
    /\ UNCHANGED <<reader, sac, senders, call, app>>

Next ==
    \/ ConfigChange
    \/ RequestStop
    \/ Step
    \/ RunForeverCall
    \/ RunForeverStart
    \/ RunForeverTick
    \/ RunForeverStop
    \/ RunForeverFinally

Spec == Init /\ [][Next]_vars

\* a step of RunForeverTick: the only action that returns a tick while
\* run_forever is in its loop
RunForeverTicks == rf_pc = "loop" /\ tick'.ev # None

\* the thread that run_forever was called on keeps being scheduled: weak
\* fairness of each of its steps; RunForeverTick is enabled exactly when
\* run_forever is in its loop and the stop event is not set, and its weak
\* fairness is written out on that condition
SpecRunForever ==
    /\ Init
    /\ [][Next]_vars
    /\ WF_vars(RunForeverStart)
    /\ WF_vars(RunForeverStop)
    /\ WF_vars(RunForeverFinally)
    /\ \/ []<>(rf_pc # "loop" \/ bridge.stop_event)
       \/ []<><<RunForeverTicks>>_vars

\* run_forever with its ticks counted: the call record holds the parity of the
\* number of calls of step the loop has made, so that a tick that leaves the
\* bridge as it found it is still a step of the thread
InitRunForeverTicks ==
    /\ disk = [mtime |-> 1, content |-> ConfigA]
    /\ cfg = reload(disk)
    /\ \E break_on_reload \in BOOLEAN, on_result \in BOOLEAN :
           bridge = bridge_init(cfg, break_on_reload, on_result)
    /\ rf_pc = "not_running"
    /\ tick = NoTick
    /\ InitReader
    /\ app = app_init
    /\ call = [fn |-> "run_forever", ticks |-> 0]

\* run_forever, one iteration of the while loop (lines 320-327), no stop
\* being requested
RunForeverTickCounted ==
    /\ rf_pc = "loop"
    /\ ~bridge.stop_event
    /\ \E r \in step(bridge, cfg, disk) :
           /\ bridge' = r.b
           /\ cfg' = r.c
           /\ disk' = r.d
           /\ tick' = r.t
           /\ rf_pc' = IF r.t.ev \in {"RELOAD_BREAK", Raised} THEN "finally" ELSE "loop"
    /\ call' = [call EXCEPT !.ticks = 1 - @]
    /\ UNCHANGED <<reader, sac, senders, app>>

NextRunForeverTicks ==
    \/ ConfigChange
    \/ RunForeverCall
    \/ RunForeverStart
    \/ RunForeverTickCounted
    \/ RunForeverFinally

\* a counted tick
RunForeverCounts == rf_pc = "loop" /\ call'.ticks # call.ticks

\* the thread run_forever was called on keeps being scheduled, and nobody
\* requests a stop: weak fairness of each of its steps, that of the tick
\* written out on the condition it is enabled on
SpecRunForeverTicks ==
    /\ InitRunForeverTicks
    /\ [][NextRunForeverTicks]_vars
    /\ WF_vars(RunForeverStart)
    /\ WF_vars(RunForeverFinally)
    /\ \/ []<>(rf_pc # "loop")
       \/ []<><<RunForeverCounts>>_vars

(***************************************************************************)
(* SFCComReader: the reader thread, the thread calling send_and_collect,   *)
(* and the clock.                                                          *)
(***************************************************************************)
\* commands the caller sends
SacCommands == {"Q1\r\n"}

\* _reader_loop opens the port (lines 183-194)
ReaderOpen ==
    /\ reader.th = "new"
    /\ \/ reader' = [reader EXCEPT !.th = "running", !.ready = TRUE]
       \/ reader' = [reader EXCEPT !.th = "failed"]
    /\ UNCHANGED <<sac, senders, call>>
    /\ UNCHANGED <<bvars, app>>

\* one iteration of the reader loop in which read returns bytes the SFC
\* device has sent (lines 198-221), up to the first _emit_line
ReaderRead ==
    /\ reader.th = "running"
    /\ reader.pending = << >>
    /\ \E chunk \in RxChunks :
           LET sp == split_lines(reader.rx_buf \o chunk)
           IN  /\ Len(sp.rest) <= MaxRxBuf
               /\ reader.seq + Len(sp.lines) <= MaxSeq
               /\ reader' = [reader EXCEPT !.rx_buf = sp.rest, !.pending = sp.lines,
                                            !.last_read_age = 0]
    /\ UNCHANGED <<sac, senders, call>>
    /\ UNCHANGED <<bvars, app>>

\* _emit_line, lines 175-176
ReaderEmitSeq ==
    /\ reader.pending # << >>
    /\ reader.emit_pc = "seq"
    /\ reader' = emit_line_seq(reader)
    /\ UNCHANGED <<sac, senders, call>>
    /\ UNCHANGED <<bvars, app>>

\* _emit_line, lines 177-178; a line read after the command of the
\* send_and_collect under way was written is noted in rcvd
ReaderEmitAppend ==
    /\ reader.pending # << >>
    /\ reader.emit_pc = "append"
    /\ reader' = emit_line_append(reader)
    /\ sac' = IF sac.pc = "loop" /\ reader.seq >= sac.first
              THEN [sac EXCEPT !.rcvd = Append(@, Head(reader.pending))]
              ELSE sac
    /\ UNCHANGED <<senders, call>>
    /\ UNCHANGED <<bvars, app>>

\* time passes
ClockTick ==
    /\ reader' = [reader EXCEPT !.last_rx_age = Older(@, IdleAfter),
                                !.last_read_age = Older(@, IdleAfter)]
    /\ sac' = IF sac.pc \in {"send", "loop"}
              THEN [sac EXCEPT !.elapsed = Min(@ + 1, Timeout)]
              ELSE sac
    /\ <<reader', sac'>> # <<reader, sac>>
    /\ UNCHANGED <<senders, call>>
    /\ UNCHANGED <<bvars, app>>

\* send_and_collect is called (line 135)
SacCall ==
    /\ sac.pc = "idle"
    /\ \E expect \in {None, RxStatus}, clear_before_send \in BOOLEAN,
          cmd \in SacCommands :
           sac' = [sac_idle EXCEPT !.pc = IF clear_before_send THEN "clear" ELSE "mark",
                                   !.expect = expect, !.cmd = cmd,
                                   !.clear_before_send = clear_before_send]
    /\ UNCHANGED <<reader, senders, call>>
    /\ UNCHANGED <<bvars, app>>

\* clear_input_buffer (lines 84-93): returns when the port is not ready,
\* else discards the bytes the port holds and the reader has not read;
\* bytes are read as they arrive here, so there are none
clear_input_buffer(r) == r

SacClear ==
    /\ sac.pc = "clear"
    /\ sac' = [sac EXCEPT !.pc = "mark"]
    /\ reader' = clear_input_buffer(reader)
    /\ UNCHANGED <<senders, call>>
    /\ UNCHANGED <<bvars, app>>

\* lines 138-142
SacMark ==
    /\ sac.pc = "mark"
    /\ sac' = [sac EXCEPT !.pc = "send", !.seq0 = snapshot_seq(reader),
                          !.elapsed = 0, !.matched = FALSE]
    /\ UNCHANGED <<reader, senders, call>>
    /\ UNCHANGED <<bvars, app>>

\* SFCComReader.send with no other thread at the write lock: the reader
\* afterwards and the exception raised
send(r, cmd, append_crlf) ==
    IF ~r.ready
    THEN {[r |-> r, exc |-> [kind |-> "RuntimeError",
                             msg |-> "SFCComReader: port not ready"]]}
    ELSE {[r |-> [r EXCEPT !.tx = RStripChars(cmd, {"\r", "\n"})
                                     \o (IF append_crlf THEN CRLF ELSE "")],
           exc |-> NoExc]}
         \cup {[r |-> r, exc |-> e] : e \in WriteErrors}

\* the sequence number the next line read from the port will get
next_read_seq(r) ==
    r.seq + Len(r.pending) + (IF r.emit_pc = "append" THEN 0 ELSE 1)

\* line 144: self.send(cmd)
SacSend ==
    /\ sac.pc = "send"
    /\ \E w \in send(reader, sac.cmd, TRUE) :
           /\ reader' = w.r
           /\ sac' = IF w.exc # NoExc THEN sac_raise(sac, w.exc)
                     ELSE [sac EXCEPT !.pc = "loop", !.first = next_read_seq(reader),
                                      !.rcvd = << >>]
    /\ UNCHANGED <<senders, call>>
    /\ UNCHANGED <<bvars, app>>

\* lines 147-167: one iteration of the loop before the deadline: the lines
\* collected, the sticky match, the completion rule, the wait
SacLoop ==
    /\ sac.pc = "loop"
    /\ sac.elapsed < Timeout
    /\ LET lines == get_lines_since(reader, sac.seq0)
           matched == sac_matched(sac, lines)
       IN  sac' = IF sac_complete(sac, reader, matched)
                  THEN sac_return([sac EXCEPT !.matched = matched], TRUE, lines)
                  ELSE [sac EXCEPT !.matched = matched]
    /\ UNCHANGED <<reader, senders, call>>
    /\ UNCHANGED <<bvars, app>>

\* lines 147-149 and 169-171: the deadline has passed
SacTimeout ==
    /\ sac.pc = "loop"
    /\ sac.elapsed >= Timeout
    /\ sac' = sac_timeout(sac, reader)
    /\ UNCHANGED <<reader, senders, call>>
    /\ UNCHANGED <<bvars, app>>

\* the caller takes the result (or the exception)
SacDone ==
    /\ sac.pc = "done"
    /\ sac' = sac_idle
    /\ UNCHANGED <<reader, senders, call>>
    /\ UNCHANGED <<bvars, app>>

InitSfcReader ==
    /\ disk = [mtime |-> 1, content |-> ConfigA]
    /\ cfg = reload(disk)
    /\ bridge = bridge_init(cfg, FALSE, FALSE)
    /\ rf_pc = "not_running"
    /\ tick = NoTick
    /\ InitReader
    /\ app = app_init
    /\ call = NoCall

NextSfcReader ==
    \/ ReaderOpen
    \/ ReaderRead
    \/ ReaderEmitSeq
    \/ ReaderEmitAppend
    \/ ClockTick
    \/ SacCall
    \/ SacClear
    \/ SacMark
    \/ SacSend
    \/ SacLoop
    \/ SacTimeout
    \/ SacDone

SpecSfcReader == InitSfcReader /\ [][NextSfcReader]_vars

(***************************************************************************)
(* SFCComReader: threads calling send and clear_input_buffer while the     *)
(* reader thread runs.  ser.write puts the payload on the port in two      *)
(* pieces.                                                                 *)
(***************************************************************************)
\* a lock that every thread can take at any time
lock_free_always(r) == TRUE

\* self._write_lock can be acquired
lock_free(r) == r.write_lock = None

FirstPiece(payload) == SubSeq(payload, 1, Len(payload) \div 2)

\* a thread calls send(cmd) or clear_input_buffer()
SenderCall(w) ==
    /\ senders[w].pc = "idle"
    /\ \/ \E cmd \in SenderCommands :
              senders' = [senders EXCEPT ![w] =
                             [pc |-> "ready", op |-> "send",
                              payload |-> RStripChars(cmd, {"\r", "\n"}) \o CRLF,
                              exc |-> NoExc]]
       \/ senders' = [senders EXCEPT ![w] =
                         [pc |-> "ready", op |-> "clear", payload |-> "",
                          exc |-> NoExc]]
    /\ UNCHANGED <<reader, sac, call>>
    /\ UNCHANGED <<bvars, app>>

\* lines 86-87 and 97-98: self._ready.wait(timeout=2.0) returns
SenderReady(w) ==
    /\ senders[w].pc = "ready"
    /\ senders' = [senders EXCEPT ![w] =
           IF reader.ready THEN [@ EXCEPT !.pc = "lock"]
           ELSE IF @.op = "send"
           THEN [@ EXCEPT !.pc = "idle",
                          !.exc = [kind |-> "RuntimeError",
                                   msg |-> "SFCComReader: port not ready"]]
           ELSE [@ EXCEPT !.pc = "idle"]]
    /\ UNCHANGED <<reader, sac, call>>
    /\ UNCHANGED <<bvars, app>>

\* lines 89 and 106: with self._write_lock
SenderAcquire(w) ==
    /\ senders[w].pc = "lock"
    /\ lock_free(reader)
    /\ reader' = [reader EXCEPT !.write_lock = w]
    /\ senders' = [senders EXCEPT ![w].pc = IF senders[w].op = "send" THEN "write" ELSE "reset"]
    /\ UNCHANGED <<sac, call>>
    /\ UNCHANGED <<bvars, app>>

\* line 107: self._ser.write(b) puts the next piece on the port, or raises
\* before it has written anything (the with statement releases the lock)
SenderWrite(w) ==
    /\ senders[w].pc = "write"
    /\ LET payload == senders[w].payload
       IN  \/ /\ reader' = [reader EXCEPT !.out_buf = @ \o FirstPiece(payload)]
              /\ senders' = [senders EXCEPT ![w].pc = "write2"]
           \/ \E e \in WriteErrors :
                  /\ reader' = [reader EXCEPT !.write_lock = None]
                  /\ senders' = [senders EXCEPT ![w].pc = "idle", ![w].exc = e]
    /\ UNCHANGED <<sac, call>>
    /\ UNCHANGED <<bvars, app>>

\* line 107: the rest of the payload
SenderWriteRest(w) ==
    /\ senders[w].pc = "write2"
    /\ LET payload == senders[w].payload
       IN  reader' = [reader EXCEPT !.out_buf =
                         @ \o SubSeq(payload, Len(FirstPiece(payload)) + 1, Len(payload))]
    /\ senders' = [senders EXCEPT ![w].pc = "flush"]
    /\ UNCHANGED <<sac, call>>
    /\ UNCHANGED <<bvars, app>>

\* line 109 and the end of the with statement: the bytes written leave the
\* port, the lock is released, send returns
SenderFlush(w) ==
    /\ senders[w].pc = "flush"
    /\ reader' = [reader EXCEPT !.out_buf = "", !.tx = senders[w].payload,
                                !.write_lock = None]
    /\ senders' = [senders EXCEPT ![w].pc = "idle"]
    /\ UNCHANGED <<sac, call>>
    /\ UNCHANGED <<bvars, app>>

\* lines 90-93: reset_input_buffer, then the lock is released
SenderReset(w) ==
    /\ senders[w].pc = "reset"
    /\ reader' = [clear_input_buffer(reader) EXCEPT !.write_lock = None]
    /\ senders' = [senders EXCEPT ![w].pc = "idle"]
    /\ UNCHANGED <<sac, call>>
    /\ UNCHANGED <<bvars, app>>

NextSfcWriters ==
    \/ ReaderOpen
    \/ ReaderRead
    \/ ReaderEmitSeq
    \/ ReaderEmitAppend
    \/ \E w \in Senders : SenderCall(w)
    \/ \E w \in Senders : SenderReady(w)
    \/ \E w \in Senders : SenderAcquire(w)
    \/ \E w \in Senders : SenderWrite(w)
    \/ \E w \in Senders : SenderWriteRest(w)
    \/ \E w \in Senders : SenderFlush(w)
    \/ \E w \in Senders : SenderReset(w)

SpecSfcWriters == InitSfcReader /\ [][NextSfcWriters]_vars

(***************************************************************************)
(* infer_status called on a text.                                          *)
(***************************************************************************)
RECURSIVE TextsUpTo(_)
TextsUpTo(n) ==
    IF n = 0 THEN {""}
    ELSE LET shorter == TextsUpTo(n - 1)
         IN  shorter \cup {t \o k : t \in shorter, k \in StatusTokens}

StatusTexts == TextsUpTo(MaxTokens)

InitInferStatus ==
    /\ disk = [mtime |-> 1, content |-> ConfigA]
    /\ cfg = reload(disk)
    /\ bridge = bridge_init(cfg, FALSE, FALSE)
    /\ rf_pc = "not_running"
    /\ tick = NoTick
    /\ InitReader
    /\ app = app_init
    /\ \E text \in StatusTexts :
           call = [fn |-> "infer_status", arg |-> text, ret |-> NotCalled]

CallInferStatus ==
    /\ call.fn = "infer_status"
    /\ call.ret = NotCalled
    /\ call' = [call EXCEPT !.ret = infer_status(call.arg)]
    /\ UNCHANGED <<reader, sac, senders>>
    /\ UNCHANGED <<bvars, app>>

SpecInferStatus == InitInferStatus /\ [][CallInferStatus]_vars

(***************************************************************************)
(* should_break called on a text and a rule list.                          *)
(***************************************************************************)
\* the rules the lists are made of, as _parse_rule builds them
RulePool == {BreakRule("END", "END"), BreakRule("IN", "AB"),
             BreakRule("REGEX", RxNeedPsn), BreakRule("END", "PASS"),
             BreakRule("IN", "NEEDPSN")}

BreakTexts == {"", "ab", "abC end\r\n", "END x", "NEEDPSN12 \n", "needpsn1x",
               "x pass \t\r\n", "PASS"}

RECURSIVE RuleListsUpTo(_)
RuleListsUpTo(n) ==
    IF n = 0 THEN {<< >>}
    ELSE LET shorter == RuleListsUpTo(n - 1)
         IN  shorter \cup {Append(l, r) : l \in shorter, r \in RulePool}

\* the state around a call of a function that reads its arguments only; the
\* call record says whether the function has returned and what
InitPure ==
    /\ disk = [mtime |-> 1, content |-> ConfigA]
    /\ cfg = reload(disk)
    /\ bridge = bridge_init(cfg, FALSE, FALSE)
    /\ rf_pc = "not_running"
    /\ tick = NoTick
    /\ InitReader
    /\ app = app_init

InitShouldBreak ==
    /\ InitPure
    /\ \E text \in BreakTexts, rules \in RuleListsUpTo(MaxRules) :
           call = [fn |-> "should_break", arg |-> [text |-> text, rules |-> rules],
                   returned |-> FALSE, ret |-> FALSE]

CallShouldBreak ==
    /\ call.fn = "should_break"
    /\ ~call.returned
    /\ call' = [call EXCEPT !.returned = TRUE,
                            !.ret = should_break(call.arg.text, call.arg.rules)]
    /\ UNCHANGED <<reader, sac, senders>>
    /\ UNCHANGED <<bvars, app>>

SpecShouldBreak == InitShouldBreak /\ [][CallShouldBreak]_vars

(***************************************************************************)
(* load_readline_break_rules: the values of TOKENS and ALWAYS_LAST in      *)
(* section SERIAL_READLINE_BREAK are split into tokens, every token is     *)
(* parsed into a rule, and the two groups are merged.                      *)
(***************************************************************************)
ListSeparators == {",", "\n"}

\* index of the first separator of s, 0 when there is none
SeparatorAt(s) ==
    IF \E i \in 1..Len(s) : Ch(s, i) \in ListSeparators
    THEN CHOOSE i \in 1..Len(s) :
             /\ Ch(s, i) \in ListSeparators
             /\ \A j \in 1..(i - 1) : Ch(s, j) \notin ListSeparators
    ELSE 0

\* re.split(r"[,\n]+", s)
RECURSIVE re_split(_)
re_split(s) ==
    LET i == SeparatorAt(s)
    IN  IF i = 0 THEN <<s>>
        ELSE <<SubSeq(s, 1, i - 1)>>
                 \o re_split(LStripChars(SubSeq(s, i, Len(s)), ListSeparators))

IsListItem(t) == t # "" /\ ~StartsWith(t, "#") /\ ~StartsWith(t, ";")

\* split_list (lines 928-930): the trimmed parts that are neither empty nor
\* comments
split_list(s) ==
    LET parts == re_split(s)
    IN  SelectSeq([i \in 1..Len(parts) |-> Strip(parts[i])], IsListItem)

\* re.compile(pat, flags=re.IGNORECASE) for the patterns in use: the
\* exception it raises
re_compile(pat) ==
    CASE pat = "(" ->
            [kind |-> "re.error",
             msg |-> "missing ), unterminated subpattern at position 0"]
      [] pat = "a{4294967296}" ->
            [kind |-> "OverflowError", msg |-> "the repetition number is too large"]
      [] OTHER -> NoExc

\* what stands for the None that _parse_rule returns for a dropped token
NoRule == BreakRule("", "")

\* an except clause in _parse_rule that catches every exception
parse_rule_regex_catch_all(pat) ==
    LET e == re_compile(pat)
    IN  IF e = NoExc
        THEN [rule |-> BreakRule("REGEX", pat), warned |-> FALSE, exc |-> NoExc]
        ELSE [rule |-> NoRule, warned |-> TRUE, exc |-> NoExc]

\* _parse_rule, lines 86-91: the try statement around re.compile
parse_rule_regex(pat) ==
    LET e == re_compile(pat)
    IN  IF e = NoExc
        THEN [rule |-> BreakRule("REGEX", pat), warned |-> FALSE, exc |-> NoExc]
        ELSE IF e.kind = "re.error"
        THEN [rule |-> NoRule, warned |-> TRUE, exc |-> NoExc]
        ELSE [rule |-> NoRule, warned |-> FALSE, exc |-> e]

\* _parse_rule: the rule (NoRule when the token is dropped), whether a
\* warning was logged, and the exception raised
parse_rule(token) ==
    LET raw == Strip(token)
        up == Upper(raw)
        plain(mode, pattern) ==
            [rule |-> BreakRule(mode, pattern), warned |-> FALSE, exc |-> NoExc]
    IN  IF StartsWith(up, "MATCHREGEX:") \/ StartsWith(up, "REGEX:")
        THEN LET pat == IF StartsWith(up, "MATCHREGEX:")
                        THEN Strip(SubSeq(raw, Len("MATCHREGEX:") + 1, Len(raw)))
                        ELSE Strip(SubSeq(raw, Len("REGEX:") + 1, Len(raw)))
             IN  IF pat = ""
                 THEN [rule |-> NoRule, warned |-> FALSE, exc |-> NoExc]
                 ELSE parse_rule_regex(pat)
        ELSE IF StartsWith(up, "END:")
        THEN plain("END", Strip(SubSeq(up, 5, Len(up))))
        ELSE IF StartsWith(up, "IN:")
        THEN plain("IN", Strip(SubSeq(up, 4, Len(up))))
        ELSE plain("IN", up)

rule_id(r) == <<r.mode, r.pattern>>

\* the list comprehensions of lines 931-932: the rules of the tokens that
\* were not dropped, the number of warnings, and the exception that ended
\* the comprehension
RECURSIVE parse_rules(_)
parse_rules(tokens) ==
    IF tokens = << >> THEN [rules |-> << >>, warnings |-> 0, exc |-> NoExc]
    ELSE LET p == parse_rule(Head(tokens))
         IN  IF p.exc # NoExc
             THEN [rules |-> << >>, warnings |-> 0, exc |-> p.exc]
             ELSE LET more == parse_rules(Tail(tokens))
                  IN  [rules |-> (IF p.rule = NoRule THEN << >> ELSE <<p.rule>>)
                                     \o more.rules,
                       warnings |-> (IF p.warned THEN 1 ELSE 0) + more.warnings,
                       exc |-> more.exc]

AlwaysLastFallback == "END:PASS, END:FAIL, END:ERRO"
\* cp.get(sec, key, fallback=...): the value, the fallback when the key is
\* missing
cp_get(value, fallback) == IF value = None THEN fallback ELSE value

RECURSIVE without_ids(_, _)
without_ids(rules, ids) ==
    IF rules = << >> THEN << >>
    ELSE (IF rule_id(Head(rules)) \in ids THEN << >> ELSE <<Head(rules)>>)
             \o without_ids(Tail(rules), ids)

\* load_readline_break_rules on the values of the two keys (None = key
\* missing): the rule list returned or the exception raised, and the number
\* of warnings logged
load_readline_break_rules(tokens_value, always_last_value) ==
    LET tokens == parse_rules(split_list(cp_get(tokens_value, "")))
    IN  IF tokens.exc # NoExc
        THEN [rules |-> << >>, warnings |-> tokens.warnings, exc |-> tokens.exc]
        ELSE LET always_last ==
                     parse_rules(split_list(cp_get(always_last_value, AlwaysLastFallback)))
                 always_last_ids ==
                     {rule_id(always_last.rules[i]) : i \in 1..Len(always_last.rules)}
             IN  IF always_last.exc # NoExc
                 THEN [rules |-> << >>, warnings |-> tokens.warnings,
                       exc |-> always_last.exc]
                 ELSE [rules |-> without_ids(tokens.rules, always_last_ids)
                                     \o always_last.rules,
                       warnings |-> tokens.warnings + always_last.warnings,
                       exc |-> NoExc]

\* tokens a configuration value is written with
RuleTokens == {"END:END", "end: pass", "ab", "REGEX:NEEDPSN\\d+\\s*$",
               "MATCHREGEX:(", "REGEX:a{4294967296}"}

RECURSIVE TokenListsUpTo(_)
TokenListsUpTo(n) ==
    IF n = 0 THEN {<< >>}
    ELSE LET shorter == TokenListsUpTo(n - 1)
         IN  shorter \cup {Append(l, t) : l \in shorter, t \in RuleTokens}

\* the value of a key written with the tokens of l, sep between them
RECURSIVE Joined(_, _)
Joined(l, sep) ==
    IF l = << >> THEN ""
    ELSE IF Len(l) = 1 THEN l[1]
    ELSE l[1] \o sep \o Joined(Tail(l), sep)

\* TOKENS is written on one line, ALWAYS_LAST on several lines or not at
\* all; the call record keeps the tokens the values were written with
InitLoadRules ==
    /\ InitPure
    /\ \E tokens \in TokenListsUpTo(MaxRuleTokens),
          always_last \in TokenListsUpTo(MaxRuleTokens), present \in BOOLEAN :
           /\ present \/ always_last = << >>
           /\ call = [fn |-> "load_readline_break_rules",
                      arg |-> [tokens |-> tokens,
                               always_last |->
                                   IF present THEN always_last
                                   ELSE <<"END:PASS", "END:FAIL", "END:ERRO">>,
                               tokens_value |-> Joined(tokens, ", "),
                               always_last_value |->
                                   IF present THEN Joined(always_last, ",\n  ")
                                   ELSE None],
                      returned |-> FALSE,
                      ret |-> [rules |-> << >>, warnings |-> 0, exc |-> NoExc]]

CallLoadRules ==
    /\ call.fn = "load_readline_break_rules"
    /\ ~call.returned
    /\ call' = [call EXCEPT !.returned = TRUE,
                            !.ret = load_readline_break_rules(
                                        call.arg.tokens_value, call.arg.always_last_value)]
    /\ UNCHANGED <<reader, sac, senders>>
    /\ UNCHANGED <<bvars, app>>

SpecLoadRules == InitLoadRules /\ [][CallLoadRules]_vars

(***************************************************************************)
(* FrameAssembler.push called again and again on one assembler.  The call  *)
(* record holds the assembler (rules, buf, t0), the number of calls, and   *)
(* of the last call the chunk, the returned value and the buffer and t0    *)
(* it started from.                                                        *)
(***************************************************************************)
PushChunks == {"", "AB", "C END\r\n", " "}
PushRules == {<<BreakRule("END", "END")>>, RulesA, <<BreakRule("IN", "AB")>>}

InitPush ==
    /\ InitPure
    /\ \E rules \in PushRules :
           call = [fn |-> "push", rules |-> rules, buf |-> "", t0 |-> FALSE,
                   calls |-> 0, chunk |-> "", out |-> None,
                   buf_before |-> "", t0_before |-> FALSE]

CallPush ==
    /\ call.fn = "push"
    /\ call.calls < MaxPushes
    /\ \E chunk \in PushChunks :
           LET p == push(call.buf, call.t0, call.rules, chunk)
           IN  call' = [call EXCEPT !.buf = p.buf, !.t0 = p.t0, !.calls = @ + 1,
                                    !.chunk = chunk, !.out = p.out,
                                    !.buf_before = call.buf, !.t0_before = call.t0]
    /\ UNCHANGED <<reader, sac, senders>>
    /\ UNCHANGED <<bvars, app>>

SpecPush == InitPush /\ [][CallPush]_vars

(***************************************************************************)
(* _pick_best_line called on a list of lines.                              *)
(***************************************************************************)
RECURSIVE Repeated(_, _)
Repeated(s, n) == IF n = 0 THEN "" ELSE s \o Repeated(s, n - 1)

\* lines of different scores, among them lines of 25 and of 130 characters
BestLineTexts == {"ACK", "$ack", "x,pass", "MO1,PASSED=1", "Erro timeout",
                  Repeated("12345", 5), Repeated("1234567890", 13)}

RECURSIVE LineListsUpTo(_)
LineListsUpTo(n) ==
    IF n = 0 THEN {<< >>}
    ELSE LET shorter == LineListsUpTo(n - 1)
         IN  shorter \cup {Append(l, t) : l \in shorter, t \in BestLineTexts}

InitPickBestLine ==
    /\ InitPure
    /\ \E lines \in LineListsUpTo(MaxLines) :
           call = [fn |-> "pick_best_line", arg |-> lines, returned |-> FALSE,
                   ret |-> ""]

CallPickBestLine ==
    /\ call.fn = "pick_best_line"
    /\ ~call.returned
    /\ call' = [call EXCEPT !.returned = TRUE, !.ret = pick_best_line(call.arg)]
    /\ UNCHANGED <<reader, sac, senders>>
    /\ UNCHANGED <<bvars, app>>

SpecPickBestLine == InitPickBestLine /\ [][CallPickBestLine]_vars

(***************************************************************************)
(* send_text_and_wait step by step: the port is opened and the text        *)
(* written, lines are read and appended to the response until the deadline *)
(* or until the port stays silent after the rules matched, then the result *)
(* is returned.  The call record holds the position, the response read so  *)
(* far, whether post_match_deadline is set, the exception a serial call    *)
(* raised, and the result.                                                 *)
(***************************************************************************)
\* what ser.readline() returns when it returns something
SfcLines == {"NEEDPSN12\r\n", "MO1,PASSED=1\r\n", "x,Fail03\r\n", " \r\n"}
\* what the file operations on the captured response can raise
CaptureErrors == {[kind |-> "OSError", msg |-> "cannot write capture file"]}

InitSendTextAndWait ==
    /\ InitPure
    /\ call = [fn |-> "send_text_and_wait", pc |-> "open", rules |-> cfg.rules,
               response |-> "", reads |-> 0, post_match |-> FALSE,
               error |-> NoExc,
               ret |-> [ok |-> FALSE, resp |-> "", exc |-> NoExc]]

\* the return (or the exception that leaves) after a serial call raised e
StwExcept(e) ==
    call' = [call EXCEPT !.pc = "done", !.error = e, !.ret = send_text_and_wait_except(e)]

\* lines 1150-1161: open the port, reset the buffers, write and flush
StwOpenAndWrite ==
    /\ call.fn = "send_text_and_wait"
    /\ call.pc = "open"
    /\ \/ call' = [call EXCEPT !.pc = "loop"]
       \/ \E e \in OpenErrors \cup WriteErrors : StwExcept(e)
    /\ UNCHANGED <<reader, sac, senders>>
    /\ UNCHANGED <<bvars, app>>

\* lines 1171-1196: readline returned a line before the deadline
StwReadLine ==
    /\ call.fn = "send_text_and_wait"
    /\ call.pc = "loop"
    /\ call.reads < MaxSfcLines
    /\ \/ \E line \in SfcLines :
              LET response == call.response \o line
              IN  call' = [call EXCEPT !.response = response, !.reads = @ + 1,
                                       !.post_match = @ \/ should_break(response, call.rules)]
       \/ \E e \in ReadErrors : StwExcept(e)
    /\ UNCHANGED <<reader, sac, senders>>
    /\ UNCHANGED <<bvars, app>>

\* lines 1171, 1198-1199 and 1207-1262: the loop ends at the deadline, or
\* at post_match_deadline with nothing to read, and the result is returned
StwFinish ==
    /\ call.fn = "send_text_and_wait"
    /\ call.pc = "loop"
    /\ \/ call' = [call EXCEPT !.pc = "done",
                                !.ret = send_text_and_wait_return(call.response)]
       \/ /\ call.response # ""
          /\ \E e \in CaptureErrors :
                 call' = [call EXCEPT !.pc = "done",
                                      !.ret = send_text_and_wait_except(e)]
    /\ UNCHANGED <<reader, sac, senders>>
    /\ UNCHANGED <<bvars, app>>

NextSendTextAndWait ==
    \/ StwOpenAndWrite
    \/ StwReadLine
    \/ StwFinish

SpecSendTextAndWait == InitSendTextAndWait /\ [][NextSendTextAndWait]_vars

(***************************************************************************)
(* The reader loop on a byte stream that arrives in chunks.  The call      *)
(* record holds _rx_buf, the number of reads, all bytes read so far and    *)
(* the texts of all lines emitted so far.                                  *)
(***************************************************************************)
\* what ser.read returns: parts of lines, a line end alone, several lines
StreamChunks == {"A", "CK\r\n", "ACK\r\nP", "\n \r\nB", "\r"}

InitReaderStream ==
    /\ InitPure
    /\ call = [fn |-> "reader_loop", rx_buf |-> "", reads |-> 0, stream |-> "",
               emitted |-> << >>]

\* lines 204-221: one read that returns bytes, and the lines cut from
\* _rx_buf after it
ReaderLoopRead ==
    /\ call.fn = "reader_loop"
    /\ call.reads < MaxReads
    /\ \E chunk \in StreamChunks :
           LET sp == split_lines(call.rx_buf \o chunk)
           IN  call' = [call EXCEPT !.rx_buf = sp.rest, !.reads = @ + 1,
                                    !.stream = @ \o chunk,
                                    !.emitted = @ \o sp.lines]
    /\ UNCHANGED <<reader, sac, senders>>
    /\ UNCHANGED <<bvars, app>>

SpecReaderStream == InitReaderStream /\ [][ReaderLoopRead]_vars

(***************************************************************************)
(* One FrameAssembler with a fixed rule set, and the calls of push and     *)
(* reset on it.                                                            *)
(***************************************************************************)
\* the rule sets of PushRules, and the one the token "END:" gives (_parse_rule
\* keeps the empty pattern, line 93)
AssemblerRules == PushRules \cup {<<BreakRule("END", "")>>}

\* FrameAssembler.__init__ (lines 12-15)
InitAssembler ==
    /\ InitPure
    /\ \E rules \in AssemblerRules :
           call = [fn |-> "FrameAssembler", rules |-> rules, buf |-> "", t0 |-> FALSE,
                   calls |-> 0, op |-> "__init__", chunk |-> "", out |-> None]

\* FrameAssembler.push(chunk)
AssemblerPush ==
    /\ call.fn = "FrameAssembler"
    /\ call.calls < MaxPushes
    /\ \E chunk \in PushChunks :
           LET p == push(call.buf, call.t0, call.rules, chunk)
           IN  call' = [call EXCEPT !.buf = p.buf, !.t0 = p.t0, !.calls = @ + 1,
                                    !.op = "push", !.chunk = chunk, !.out = p.out]
    /\ UNCHANGED <<reader, sac, senders>>
    /\ UNCHANGED <<bvars, app>>

\* FrameAssembler.reset() (lines 30-32)
AssemblerReset ==
    /\ call.fn = "FrameAssembler"
    /\ call.calls < MaxPushes
    /\ call' = [call EXCEPT !.buf = "", !.t0 = FALSE, !.calls = @ + 1,
                             !.op = "reset", !.chunk = "", !.out = None]
    /\ UNCHANGED <<reader, sac, senders>>
    /\ UNCHANGED <<bvars, app>>

NextAssembler ==
    \/ AssemblerPush
    \/ AssemblerReset

SpecAssembler == InitAssembler /\ [][NextAssembler]_vars

(***************************************************************************)
(* LASERLINKAPP: the UI thread (Tk runs one handler at a time), the        *)
(* listener thread and the flow workers.                                   *)
(***************************************************************************)
InitApp ==
    /\ InitPure
    /\ call = NoCall

\* the operator scans a MONEYSN: _commit_moneysn_scan calls
\* _start_flow_from_ui (line 1766)
UiScan ==
    /\ app.ui_pc = "idle"
    /\ app.triggers < MaxFlows
    /\ app' = [app EXCEPT !.ui_pc = "pause", !.triggers = @ + 1]
    /\ UNCHANGED <<bvars, rvars, call>>

\* _poll_open_flow_events takes a MONEYSN event (lines 2555-2572): dropped
\* while a flow is running, else injected, which calls _start_flow_from_ui
UiPollOpenFlow ==
    /\ app.ui_pc = "idle"
    /\ app.oflow_q > 0
    /\ app' = [app EXCEPT !.oflow_q = @ - 1,
                          !.ui_pc = IF app.flow_running THEN "idle" ELSE "pause"]
    /\ UNCHANGED <<bvars, rvars, call>>

\* _start_flow_from_ui, lines 1770-1771
UiStartPause ==
    /\ app.ui_pc = "pause"
    /\ app' = [(IF app.flow_running THEN app ELSE open_flow_core_pause(app))
                  EXCEPT !.ui_pc = "lock"]
    /\ UNCHANGED <<bvars, rvars, call>>

\* _start_flow_from_ui, lines 1774-1778
UiStartLock ==
    /\ app.ui_pc = "lock"
    /\ app' = IF app.flow_running
              THEN [app EXCEPT !.ui_pc = "idle"]
              ELSE [app EXCEPT !.flow_running = TRUE, !.ui_pc = "validate"]
    /\ UNCHANGED <<bvars, rvars, call>>

\* _start_flow_from_ui, lines 1784-1806: an input is empty
UiStartAbort ==
    /\ app.ui_pc = "validate"
    /\ app' = [open_flow_core_resume([app EXCEPT !.flow_running = FALSE])
                  EXCEPT !.ui_pc = "idle"]
    /\ UNCHANGED <<bvars, rvars, call>>

\* _start_flow_from_ui, lines 1808-1824: the worker thread is started
UiStartWorker ==
    /\ app.ui_pc = "validate"
    /\ app.flows < MaxFlows
    /\ app' = [app EXCEPT !.flows = @ + 1, !.wk[app.flows + 1] = "flow",
                          !.ui_pc = "idle"]
    /\ UNCHANGED <<bvars, rvars, call>>

\* _poll_flow_events takes a DONE event (lines 1998, 2010-2052)
UiPollFlow ==
    /\ app.ui_pc = "idle"
    /\ app.flow_q > 0
    /\ app' = [app EXCEPT !.flow_q = @ - 1, !.real_total = @ + 1,
                          !.flow_running = FALSE]
    /\ UNCHANGED <<bvars, rvars, call>>

\* _open_flow_core_loop, lines 2443-2445: the listener is not paused
LisCheckRun ==
    /\ app.lis_pc = "check_run"
    /\ app.run_evt
    /\ app' = [app EXCEPT !.lis_pc = "check_flow"]
    /\ UNCHANGED <<bvars, rvars, call>>

\* _open_flow_core_loop, lines 2447-2451
LisCheckFlow ==
    /\ app.lis_pc = "check_flow"
    /\ app' = IF app.flow_running
              THEN [open_flow_core_pause(app) EXCEPT !.lis_pc = "check_run"]
              ELSE [app EXCEPT !.lis_pc = "open"]
    /\ UNCHANGED <<bvars, rvars, call>>

\* _open_flow_core_loop, lines 2453-2496: the port is opened when the listener
\* holds no handle; there is no port or the open fails (lines 2463-2465,
\* 2528-2536)
LisOpen ==
    /\ app.lis_pc = "open"
    /\ \/ app' = [app EXCEPT !.oflow_ser = "COM_LASER", !.lis_pc = "read"]
       \/ /\ app.oflow_ser = None
          /\ app' = [app EXCEPT !.lis_pc = "check_run"]
    /\ UNCHANGED <<bvars, rvars, call>>

\* _open_flow_core_loop, lines 2498-2513: readline returns nothing, or a line
\* when the handle is still open
LisRead ==
    /\ app.lis_pc = "read"
    /\ \/ app' = [app EXCEPT !.lis_pc = "check_run"]
       \/ /\ app.oflow_ser # None
          /\ app.triggers < MaxFlows
          /\ app' = [app EXCEPT !.lis_pc = "detected", !.triggers = @ + 1]
    /\ UNCHANGED <<bvars, rvars, call>>

\* _open_flow_core_loop, lines 2520-2526
LisDetected ==
    /\ app.lis_pc = "detected"
    /\ app' = [open_flow_core_pause(app) EXCEPT !.oflow_q = @ + 1,
                                                  !.lis_pc = "check_run"]
    /\ UNCHANGED <<bvars, rvars, call>>

\* flow_core returns through fail or okpass (lines 1842, 1853)
WkFlowReturn(k) ==
    /\ app.wk[k] = "flow"
    /\ app' = [emit_done(app, k) EXCEPT !.wk[k] = "finally"]
    /\ UNCHANGED <<bvars, rvars, call>>

\* an exception before emit is bound (lines 1829-1834): the except clause
\* raises UnboundLocalError at line 1962
WkFlowExceptEarly(k) ==
    /\ app.wk[k] = "flow"
    /\ app' = [app EXCEPT !.wk[k] = "finally_raising"]
    /\ UNCHANGED <<bvars, rvars, call>>

\* an exception after emit is bound: line 1962
WkFlowExcept(k) ==
    /\ app.wk[k] = "flow"
    /\ app' = [emit_done(app, k) EXCEPT !.wk[k] = "except"]
    /\ UNCHANGED <<bvars, rvars, call>>

\* line 1963: return fail("EXCEPTION", ...)
WkExceptFail(k) ==
    /\ app.wk[k] = "except"
    /\ app' = [emit_done(app, k) EXCEPT !.wk[k] = "finally"]
    /\ UNCHANGED <<bvars, rvars, call>>

\* the finally clause of flow_core (lines 1964-1968)
WkFinally(k) ==
    /\ app.wk[k] \in {"finally", "finally_raising"}
    /\ app' = [open_flow_core_resume(app) EXCEPT
                  !.wk[k] = IF app.wk[k] = "finally" THEN "ended" ELSE "raised"]
    /\ UNCHANGED <<bvars, rvars, call>>

\* the except clause of worker (lines 1816-1817)
WkWorkerExcept(k) ==
    /\ app.wk[k] = "raised"
    /\ app' = [emit_done(app, k) EXCEPT !.wk[k] = "ended"]
    /\ UNCHANGED <<bvars, rvars, call>>

UiStep ==
    \/ UiPollOpenFlow
    \/ UiStartPause
    \/ UiStartLock
    \/ UiStartAbort
    \/ UiStartWorker
    \/ UiPollFlow

LisStep ==
    \/ LisCheckRun
    \/ LisCheckFlow
    \/ LisOpen
    \/ LisRead
    \/ LisDetected

WkStep(k) ==
    \/ WkFlowReturn(k)
    \/ WkFlowExceptEarly(k)
    \/ WkFlowExcept(k)
    \/ WkExceptFail(k)
    \/ WkFinally(k)
    \/ WkWorkerExcept(k)

NextApp ==
    \/ UiScan
    \/ UiStep
    \/ LisStep
    \/ \E k \in Flows : WkStep(k)

SpecApp == InitApp /\ [][NextApp]_vars

\* every thread keeps being scheduled: the Tk main loop runs the handler
\* under way and its polls, the listener and the workers run; the operator
\* need not scan
SpecAppFair ==
    /\ InitApp
    /\ [][NextApp]_vars
    /\ WF_vars(UiStep)
    /\ WF_vars(LisStep)
    /\ \A k \in Flows : WF_vars(WkStep(k))

(***************************************************************************)
(* Properties of LaserSfcBridge.                                           *)
(***************************************************************************)
Ticked == tick.ev # None
SfcFailureEvents == {"SFC_TIMEOUT", "SFC_ERROR"}

\* C1: when the SFC reply of a tick matches PASSED=[01], the tick returns
\* HOLD, writes nothing to the laser, ends the chain and leaves Listening.
C1_HoldPoint ==
    (tick.sfc = "ok" /\ is_hold_point(bridge.last_sfc_resp)) =>
        /\ tick.ev = "HOLD"
        /\ tick.tx = ""
        /\ ~bridge.chain_active
        /\ bridge.mode = "Listening"

\* C1 with an observer that returns (or none): the hold point is honoured.
HoldPointWhenObserverReturns ==
    (tick.sfc = "ok" /\ is_hold_point(bridge.last_sfc_resp) /\ tick.obs # "raised")
        => /\ tick.ev = "HOLD"
           /\ tick.tx = ""
           /\ ~bridge.chain_active
           /\ bridge.mode = "Listening"

\* C2: when the SFC reply of a tick has no PASSED=[01] match (and the write
\* to the laser port does not fail), the tick returns SFC_OK, has written the
\* reply without trailing CR/LF plus one CRLF, and leaves Testing, chain active.
C2_PassThrough ==
    (/\ tick.sfc = "ok"
     /\ ~is_hold_point(bridge.last_sfc_resp)
     /\ tick.exc \notin WriteErrors) =>
        /\ tick.ev = "SFC_OK"
        /\ tick.tx = RStripChars(bridge.last_sfc_resp, {"\r", "\n"}) \o CRLF
        /\ bridge.mode = "Testing"
        /\ bridge.chain_active

\* C2 with an observer that returns (or none).
PassThroughWhenObserverReturns ==
    (/\ tick.sfc = "ok"
     /\ ~is_hold_point(bridge.last_sfc_resp)
     /\ tick.obs # "raised"
     /\ tick.exc \notin WriteErrors) =>
        /\ tick.ev = "SFC_OK"
        /\ tick.tx = RStripChars(bridge.last_sfc_resp, {"\r", "\n"}) \o CRLF
        /\ bridge.mode = "Testing"
        /\ bridge.chain_active

\* C3: when the SFC transaction of a tick fails, the tick records TIMEOUT or
\* SFC_ERROR, calls the observer, ends the chain, leaves Listening, writes
\* nothing to the laser and returns SFC_TIMEOUT or SFC_ERROR.
C3_SfcFailure ==
    tick.sfc = "failed" =>
        /\ bridge.last_status \in {"TIMEOUT", "SFC_ERROR"}
        /\ bridge.on_result => tick.obs # "not_called"
        /\ ~bridge.chain_active
        /\ bridge.mode = "Listening"
        /\ tick.tx = ""
        /\ tick.ev = (IF bridge.last_status = "TIMEOUT" THEN "SFC_TIMEOUT" ELSE "SFC_ERROR")

\* C3 with an observer that returns (or none).
SfcFailureWhenObserverReturns ==
    (tick.sfc = "failed" /\ tick.obs # "raised") =>
        /\ bridge.last_status \in {"TIMEOUT", "SFC_ERROR"}
        /\ bridge.on_result => tick.obs # "not_called"
        /\ ~bridge.chain_active
        /\ bridge.mode = "Listening"
        /\ tick.tx = ""
        /\ tick.ev = (IF bridge.last_status = "TIMEOUT" THEN "SFC_TIMEOUT" ELSE "SFC_ERROR")

\* C4: a chain becomes active only in a tick that got a laser frame, and an
\* active chain becomes inactive only in a tick that returns SFC_TIMEOUT,
\* SFC_ERROR or HOLD; the chain flag is one boolean per bridge.
C4_ChainStartsAndEnds ==
    [][/\ bridge'.chain_active \in BOOLEAN
       /\ (~bridge.chain_active /\ bridge'.chain_active) => tick'.frame # None
       /\ (bridge.chain_active /\ ~bridge'.chain_active) =>
              tick'.ev \in SfcFailureEvents \cup {"HOLD"}]_vars

\* C4 amended: ... or in a tick that returns RELOAD_BREAK.
C4_ChainStartsAndEndsOrReloadBreak ==
    [][/\ bridge'.chain_active \in BOOLEAN
       /\ (~bridge.chain_active /\ bridge'.chain_active) => tick'.frame # None
       /\ (bridge.chain_active /\ ~bridge'.chain_active) =>
              tick'.ev \in SfcFailureEvents \cup {"HOLD", "RELOAD_BREAK"}]_vars

\* a tick ended an active chain by a reload break
C4_Witness ==
    /\ tick.ev = "RELOAD_BREAK"
    /\ tick.chain0
    /\ ~bridge.chain_active

C6_ExceptionClosesHandle ==
    tick.exc # NoExc =>
        /\ bridge.mode = "Error"
        /\ bridge.last_error = tick.exc.msg
        /\ bridge.ser_laser = None

\* C7: no exception leaves step: every tick returns an event code, and a
\* failure of a collaborator during the tick is recorded in the bridge
\* (mode Error with last_error, or the SFC failure status).
C7_NoExceptionEscapesStep ==
    /\ tick.ev # Raised
    /\ tick.exc # NoExc =>
           /\ tick.ev = "ERROR"
           /\ bridge.mode = "Error"
           /\ bridge.last_error = tick.exc.msg
    /\ tick.opened = "failed" =>
           /\ tick.ev = "ERROR"
           /\ bridge.mode = "Error"
           /\ bridge.last_error # ""
    /\ (tick.sfc = "failed" /\ tick.exc = NoExc) =>
           /\ tick.ev \in SfcFailureEvents
           /\ bridge.last_status \in {"TIMEOUT", "SFC_ERROR"}

\* a tick in which a collaborator raised something that is not a serial error
C7_Witness ==
    /\ tick.exc # NoExc
    /\ tick.exc.kind \notin SerialExceptionKinds
    /\ tick.ev = "ERROR"

\* C9: a tick whose observer raised ends with the event, mode, chain flag and
\* write-back of the same tick with an observer that returns.
C9_ObserverExceptionDiscarded ==
    [][tick'.obs = "raised" =>
          \E r \in step(bridge, cfg, disk) :
              /\ r.t.obs = "returned"
              /\ r.t.frame = tick'.frame
              /\ r.t.sfc = tick'.sfc
              /\ r.b.last_sfc_resp = bridge'.last_sfc_resp
              /\ r.t.exc = NoExc
              /\ r.t.ev = tick'.ev
              /\ r.b.mode = bridge'.mode
              /\ r.b.chain_active = bridge'.chain_active
              /\ r.t.tx = tick'.tx]_vars

\* C10: the mode changes to Testing only in a tick that got a laser frame.
C10_TestingOnlyOnFrame ==
    [][(bridge.mode # "Testing" /\ bridge'.mode = "Testing") =>
           tick'.frame # None]_vars

\* run_forever returns: not running, mode Stopped, laser handle closed
RunForeverReturnsStopped ==
    [][(rf_pc = "finally" /\ rf_pc' = "not_running") =>
           /\ ~bridge'.running
           /\ bridge'.mode = "Stopped"
           /\ bridge'.ser_laser = None]_vars

\* C11: once request_stop() has been called after the call of run_forever,
\* also before its loop begins, run_forever eventually returns; when it
\* returns the bridge is not running, the mode is Stopped and the laser
\* handle is closed.
C11_StopEndsRunForever ==
    /\ (rf_pc # "not_running" /\ bridge.stop_event) ~> (rf_pc = "not_running")
    /\ RunForeverReturnsStopped

\* C11 for a stop requested once line 317 has run: run_forever returns.
StopInLoopEndsRunForever ==
    /\ (rf_pc = "loop" /\ bridge.stop_event) ~> (rf_pc = "not_running")
    /\ RunForeverReturnsStopped

\* C12: with break_on_reload, a tick that begins with the file changed
\* returns RELOAD_BREAK, a tick that returns anything else has not taken a
\* new configuration, RELOAD_BREAK ends the chain and resets the assembler,
\* and run_forever leaves its loop on it and ends Stopped and closed.
C12_ReloadBreaks ==
    /\ [][(bridge.break_on_reload /\ tick'.ev # None) =>
             /\ disk.mtime # cfg.mtime => tick'.ev = "RELOAD_BREAK"
             /\ tick'.ev # "RELOAD_BREAK" => cfg' = cfg
             /\ tick'.ev = "RELOAD_BREAK" =>
                    /\ ~bridge'.chain_active
                    /\ bridge'.asm_buf = "" /\ ~bridge'.asm_t0
                    /\ rf_pc = "loop" => rf_pc' = "finally"]_vars
    /\ RunForeverReturnsStopped

\* C12 for ticks during which the file is not rewritten and can be parsed.
ReloadBreaksWhenFileSteady ==
    /\ [][(/\ bridge.break_on_reload /\ tick'.ev # None
            /\ disk' = disk /\ ~disk.content.bad) =>
             /\ disk.mtime # cfg.mtime => tick'.ev = "RELOAD_BREAK"
             /\ tick'.ev # "RELOAD_BREAK" => cfg' = cfg
             /\ tick'.ev = "RELOAD_BREAK" =>
                    /\ ~bridge'.chain_active
                    /\ bridge'.asm_buf = "" /\ ~bridge'.asm_t0
                    /\ rf_pc = "loop" => rf_pc' = "finally"]_vars
    /\ RunForeverReturnsStopped

\* C13: the laser port, the rule set and the SFC port a tick used were read
\* from one configuration version.
C13_OneSnapshotPerTick ==
    Cardinality({tick.ver.laser, tick.ver.rules, tick.ver.sfc} \ {0}) <= 1

\* C13 for ticks during which the file is not rewritten.
OneSnapshotWhenFileSteady ==
    [][(tick'.ev # None /\ disk' = disk) =>
           Cardinality({tick'.ver.laser, tick'.ver.rules, tick'.ver.sfc} \ {0}) <= 1]_vars

(***************************************************************************)
(* Properties of SFCComReader.                                             *)
(***************************************************************************)
\* C8: no exception leaves send_and_collect: every call ends with a value
\* (ok, bestLine, allLines).
C8_SendAndCollectNeverRaises ==
    sac.pc = "done" => sac.result.exc = NoExc

Last(s) == s[Len(s)]

\* the sequence numbers of the buffered lines, oldest first
BufferedSeqs == [i \in 1..Len(reader.lines) |-> reader.lines[i].seq]

UpTo(seq0) == Cardinality({i \in 1..Len(reader.lines) : reader.lines[i].seq <= seq0})

\* C15: get_lines_since(seq0) returns, in arrival order, exactly the texts
\* of the buffered lines with a sequence number greater than seq0, whatever
\* the reader thread has appended and evicted before the call: the lines
\* send_and_collect returns are the texts of the buffer at that moment
\* without its lines up to seq0.
C15_LinesSinceExact ==
    [][sac.pc = "loop" /\ sac'.pc = "done" =>
           /\ sac'.result.lines
                  = [i \in 1..(Len(reader.lines) - UpTo(sac.seq0)) |->
                         reader.lines[UpTo(sac.seq0) + i].text]
           /\ \A i \in 1..Len(reader.lines) :
                  reader.lines[i].seq <= sac.seq0 =>
                      Len(sac'.result.lines) <= Len(reader.lines) - i]_vars

\* send_and_collect has returned lines while the buffer held a line emitted
\* before its mark and lines emitted after it
C15_Witness ==
    /\ sac.pc = "done"
    /\ sac.result.exc = NoExc
    /\ sac.seq0 > 0
    /\ sac.result.lines # << >>
    /\ Len(sac.result.lines) < Len(reader.lines)
    /\ \E i \in 1..Len(reader.lines) : reader.lines[i].seq = sac.seq0

\* C19: the line history never holds more than keep_lines entries, the
\* buffered lines are a contiguous run of the most recent sequence numbers,
\* and a line emitted while the buffer is full evicts exactly the oldest.
C19_RingBufferBounded ==
    /\ [](/\ Len(reader.lines) <= KeepLines
          /\ \A i \in 1..(Len(reader.lines) - 1) :
                 reader.lines[i + 1].seq = reader.lines[i].seq + 1
          /\ reader.lines # << >> =>
                 Last(reader.lines).seq
                     = reader.seq - (IF reader.emit_pc = "append" THEN 1 ELSE 0))
    /\ [][reader'.lines # reader.lines /\ Len(reader.lines) = KeepLines =>
              /\ Len(reader'.lines) = KeepLines
              /\ SubSeq(reader'.lines, 1, KeepLines - 1) = Tail(reader.lines)
              /\ Last(reader'.lines).seq = Last(reader.lines).seq + 1]_vars

\* the buffer is full and its oldest line is not the first line emitted
C19_Witness ==
    /\ Len(reader.lines) = KeepLines
    /\ reader.lines[1].seq > 1
    /\ reader.emit_pc = "seq"

IsSuffix(s, t) ==
    /\ Len(s) <= Len(t)
    /\ SubSeq(t, Len(t) - Len(s) + 1, Len(t)) = s

\* send_and_collect has returned at the deadline, called with an expect
\* pattern that no line received after the command was sent matches
ReturnedAtTimeoutUnmatched ==
    /\ sac.pc = "done"
    /\ sac.result.exc = NoExc
    /\ sac.elapsed >= Timeout
    /\ sac.expect # None
    /\ \A i \in 1..Len(sac.rcvd) : ~RegexSearch(sac.expect, sac.rcvd[i])

\* C16: send_and_collect called with an expect pattern that no received
\* line matches returns, once the timeout has elapsed, ok=false together
\* with allLines containing every line that was received after the command
\* was sent.
C16_TimeoutReturnsAllReceived ==
    ReturnedAtTimeoutUnmatched =>
        /\ ~sac.result.ok
        /\ IsSuffix(sac.rcvd, sac.result.lines)

\* the lines received after the command was sent that the ring buffer can
\* still hold: the last keep_lines of them
StillHeld(rcvd) ==
    SubSeq(rcvd, Len(rcvd) - Min(Len(rcvd), KeepLines) + 1, Len(rcvd))

\* C16 (amended): at the timeout send_and_collect returns ok=false together
\* with allLines containing every line received after the command was sent
\* that the ring buffer still holds, that is the last keep_lines of them.
C16_TimeoutReturnsAllReceivedStillHeld ==
    ReturnedAtTimeoutUnmatched =>
        /\ ~sac.result.ok
        /\ IsSuffix(StillHeld(sac.rcvd), sac.result.lines)

\* a call has returned at the deadline after lines arrived that the
\* pattern does not match
C16_Witness ==
    /\ ReturnedAtTimeoutUnmatched
    /\ sac.rcvd # << >>
    /\ ~sac.result.ok
    /\ sac.result.lines # << >>

\* C17: send_and_collect returns ok=true only when, at the moment of
\* return, the expect pattern is absent or some line collected since seq0
\* has matched it (now or in an earlier iteration), and the reader has
\* received nothing for at least idle_after_last_rx; seq0 is taken before
\* the command is written, so every line read after the write has a number
\* above it.
C17_OkOnlyWhenMatchedAndSilent ==
    [][sac.pc = "loop" /\ sac'.pc = "done" /\ sac'.result.ok =>
           /\ \/ sac.expect = None
              \/ sac.matched
              \/ \E i \in 1..Len(sac'.result.lines) :
                     RegexSearch(sac.expect, sac'.result.lines[i])
           /\ reader.last_read_age = NoAge \/ reader.last_read_age >= IdleAfter
           /\ sac.seq0 < sac.first]_vars

\* ok=true is returned only when the pattern is absent or has matched and
\* the reader has emitted no line for at least idle_after_last_rx
OkOnlyWhenMatchedAndNoLineEmitted ==
    [][sac.pc = "loop" /\ sac'.pc = "done" /\ sac'.result.ok =>
           /\ \/ sac.expect = None
              \/ sac.matched
              \/ \E i \in 1..Len(sac'.result.lines) :
                     RegexSearch(sac.expect, sac'.result.lines[i])
           /\ reader.last_rx_age # NoAge /\ reader.last_rx_age >= IdleAfter
           /\ sac.seq0 < sac.first]_vars

\* thread w is inside the with self._write_lock block
InWriteBlock(w) == senders[w].pc \in {"write", "write2", "flush", "reset"}

IsPrefix(s, t) ==
    /\ Len(s) <= Len(t)
    /\ SubSeq(t, 1, Len(s)) = s

\* C18: writes through send and clear_input_buffer are serialized by the
\* write lock: at most one thread is inside the locked block, it is the
\* holder of the lock, and the bytes on the port that are not flushed yet
\* are the beginning of that one thread's payload with no byte of another
\* sender in between.  The reader loop never takes the lock: the holder is
\* always a sender or nobody, the reader thread's steps stay possible while
\* a writer holds the lock, and a sender at a free lock can take it and one
\* that holds it can write whatever the reader thread is doing.
C18_WriteLockSerializes ==
    /\ \A a, b \in Senders : InWriteBlock(a) /\ InWriteBlock(b) => a = b
    /\ \A w \in Senders : InWriteBlock(w) <=> reader.write_lock = w
    /\ reader.write_lock \in Senders \cup {None}
    /\ \/ reader.out_buf = ""
       \/ \E w \in Senders :
              /\ InWriteBlock(w)
              /\ IsPrefix(reader.out_buf, senders[w].payload)
    /\ reader.pending # << >> /\ reader.emit_pc = "seq" => ENABLED ReaderEmitSeq
    /\ reader.pending # << >> /\ reader.emit_pc = "append" => ENABLED ReaderEmitAppend
    /\ \A w \in Senders :
           /\ senders[w].pc = "lock" /\ reader.write_lock = None
                  => ENABLED SenderAcquire(w)
           /\ senders[w].pc = "write" => ENABLED SenderWrite(w)
           /\ senders[w].pc = "write2" => ENABLED SenderWriteRest(w)
           /\ senders[w].pc = "flush" => ENABLED SenderFlush(w)

\* one sender has written half of its payload, the other waits for the
\* lock, and the reader thread is in the middle of emitting a line
C18_Witness ==
    \E a, b \in Senders :
        /\ senders[a].pc = "write2"
        /\ reader.out_buf # ""
        /\ senders[b].pc = "lock"
        /\ senders[b].op = "send"
        /\ reader.pending # << >>
        /\ reader.emit_pc = "append"

(***************************************************************************)
(* Properties of infer_status.                                             *)
(***************************************************************************)
\* text contains marker when the case of letters is ignored
ContainsIgnoringCase(text, marker) ==
    \E i \in 1..(Len(text) - Len(marker) + 1) :
        Lower(SubSeq(text, i, i + Len(marker) - 1)) = Lower(marker)

EndsWithIgnoringCase(text, marker) ==
    /\ Len(marker) <= Len(text)
    /\ Lower(SubSeq(text, Len(text) - Len(marker) + 1, Len(text))) = Lower(marker)

HasFailMarker(text) ==
    \E marker \in {"PASSED=0", "FAIL", "ERRO"} : ContainsIgnoringCase(text, marker)

HasPassMarker(text) ==
    \/ ContainsIgnoringCase(text, "PASSED=1")
    \/ ContainsIgnoringCase(text, " PASS")
    \/ EndsWithIgnoringCase(text, "PASS")

\* C20: infer_status classifies with FAIL precedence, case-insensitively:
\* FAIL if the text contains PASSED=0, FAIL or ERRO; otherwise PASS if it
\* contains PASSED=1, a space followed by PASS, or ends with PASS; otherwise
\* no status.
C20_FailPrecedence ==
    call.fn = "infer_status" /\ call.ret # NotCalled =>
        call.ret = IF HasFailMarker(call.arg) THEN "FAIL"
                   ELSE IF HasPassMarker(call.arg) THEN "PASS"
                   ELSE None

\* a text with a FAIL marker in lower case and a trailing PASS is FAIL
C20_Witness ==
    /\ call.fn = "infer_status"
    /\ Contains(call.arg, "fail")
    /\ EndsWith(call.arg, "PASS")
    /\ call.ret = "FAIL"

(***************************************************************************)
(* Further properties of LaserSfcBridge.                                   *)
(***************************************************************************)
\* the tick got an SFC reply that infer_status gives no status for
UnknownReply == tick.sfc = "ok" /\ infer_status(bridge.last_sfc_resp) = None

\* C21: an SFC reply that matches neither PASS nor FAIL markers is reported
\* as UNKNOWN and handled as a non-hold response: in that tick the reply is
\* written back to the laser (unless the write itself fails), the chain
\* stays active and the event is SFC_OK.
C21_UnknownPassesThrough ==
    (UnknownReply /\ tick.exc \notin WriteErrors) =>
        /\ bridge.last_status = "UNKNOWN"
        /\ tick.ev = "SFC_OK"
        /\ tick.tx = RStripChars(bridge.last_sfc_resp, {"\r", "\n"}) \o CRLF
        /\ bridge.chain_active

\* C21 with an observer that returns (or none).
UnknownPassesThroughWhenObserverReturns ==
    (UnknownReply /\ tick.obs # "raised" /\ tick.exc \notin WriteErrors) =>
        /\ bridge.last_status = "UNKNOWN"
        /\ tick.ev = "SFC_OK"
        /\ tick.tx = RStripChars(bridge.last_sfc_resp, {"\r", "\n"}) \o CRLF
        /\ bridge.chain_active

(***************************************************************************)
(* Properties of should_break.                                             *)
(***************************************************************************)
\* text without the whitespace at its end
RightTrimmed(text) ==
    LET k == CHOOSE k \in 0..Len(text) :
                 /\ \A i \in (Len(text) - k + 1)..Len(text) : Ch(text, i) \in Whitespace
                 /\ k < Len(text) => Ch(text, Len(text) - k) \notin Whitespace
    IN  SubSeq(text, 1, Len(text) - k)

\* rule r matches text
RuleMatches(text, r) ==
    IF r.mode = "END"
    THEN EndsWith(Upper(text), r.pattern) \/ EndsWith(Upper(RightTrimmed(text)), r.pattern)
    ELSE IF r.mode = "IN"
    THEN Contains(Upper(text), r.pattern)
    ELSE RegexSearch(r.pattern, text)

Reverse(s) == [i \in 1..Len(s) |-> s[Len(s) + 1 - i]]

\* C22: should_break(text, rules) is true exactly when at least one rule of
\* the list matches (END on the upper-cased text or its right-trimmed form,
\* IN by containment in the upper-cased text, REGEX by a search in the
\* original text); the result is the same for the rules in reverse order,
\* and the call changes neither its arguments nor any other state.
C22_ShouldBreakAnyRule ==
    /\ [](call.fn = "should_break" /\ call.returned =>
              /\ call.ret = (\E r \in {call.arg.rules[i] : i \in 1..Len(call.arg.rules)} :
                                 RuleMatches(call.arg.text, r))
              /\ call.ret = should_break(call.arg.text, Reverse(call.arg.rules)))
    /\ [][call'.returned # call.returned =>
              /\ call'.arg = call.arg
              /\ UNCHANGED <<bridge, cfg, disk, reader>>]_vars

\* a text with whitespace after the terminator matched by an END rule that
\* is not the first of the list
C22_Witness ==
    /\ call.fn = "should_break"
    /\ call.returned
    /\ call.ret
    /\ call.arg.text = "abC end\r\n"
    /\ call.arg.rules = <<BreakRule("IN", "NEEDPSN"), BreakRule("END", "END")>>

(***************************************************************************)
(* Properties of load_readline_break_rules.                                *)
(***************************************************************************)
\* the tokens whose pattern is not a regular expression re.compile accepts
MalformedTokens == {"MATCHREGEX:(", "REGEX:a{4294967296}"}

\* the rule a well-formed token stands for
RuleOf(token) ==
    CASE token = "END:END" -> BreakRule("END", "END")
      [] token = "end: pass" -> BreakRule("END", "PASS")
      [] token = "ab" -> BreakRule("IN", "AB")
      [] token = "REGEX:NEEDPSN\\d+\\s*$" -> BreakRule("REGEX", RxNeedPsn)
      [] token = "END:PASS" -> BreakRule("END", "PASS")
      [] token = "END:FAIL" -> BreakRule("END", "FAIL")
      [] token = "END:ERRO" -> BreakRule("END", "ERRO")

IsWellFormed(token) == token \notin MalformedTokens

\* the rules of the well-formed tokens of a group, in the order of the tokens
RulesOf(tokens) ==
    LET good == SelectSeq(tokens, IsWellFormed)
    IN  [i \in 1..Len(good) |-> RuleOf(good[i])]

\* the priority rules that are not in the ALWAYS_LAST group, then the
\* ALWAYS_LAST rules
MergedRules(tokens, always_last) ==
    LET last == RulesOf(always_last)
        NotLast(r) == \A i \in 1..Len(last) : last[i] # r
    IN  SelectSeq(RulesOf(tokens), NotLast) \o last

LoadRulesReturned == call.fn = "load_readline_break_rules" /\ call.returned

Malformed(tokens) == {i \in 1..Len(tokens) : tokens[i] \in MalformedTokens}

\* C23: load_readline_break_rules builds the final rule list as the
\* priority (TOKENS) rules, minus every rule whose (mode, pattern) also
\* appears in the ALWAYS_LAST group, followed by all ALWAYS_LAST rules in
\* their configured order; a token without prefix becomes an IN rule.
C23_FinalRuleList ==
    LoadRulesReturned =>
        /\ call.ret.exc = NoExc
        /\ call.ret.rules = MergedRules(call.arg.tokens, call.arg.always_last)

\* C23 for the calls that return a list.
FinalRuleListWhenReturned ==
    (LoadRulesReturned /\ call.ret.exc = NoExc) =>
        call.ret.rules = MergedRules(call.arg.tokens, call.arg.always_last)

\* C24: a malformed regex token in either rule group is dropped with a
\* warning and does not abort parsing: the call returns a list, one warning
\* is logged for each malformed token, and the rule of every well-formed
\* token of both groups is in the list, which is the list the well-formed
\* tokens alone give.
C24_MalformedRegexDropped ==
    (/\ LoadRulesReturned
     /\ Malformed(call.arg.tokens) \cup Malformed(call.arg.always_last) # {}) =>
        /\ call.ret.exc = NoExc
        /\ call.ret.warnings = Cardinality(Malformed(call.arg.tokens))
                                   + Cardinality(Malformed(call.arg.always_last))
        /\ \A l \in {call.arg.tokens, call.arg.always_last} :
               \A i \in 1..Len(l) :
                   IsWellFormed(l[i]) =>
                       \E j \in 1..Len(call.ret.rules) : call.ret.rules[j] = RuleOf(l[i])
        /\ call.ret.rules = MergedRules(call.arg.tokens, call.arg.always_last)

\* the patterns of tokens for which re.compile raises re.error
ReErrorTokens == {"MATCHREGEX:("}

\* C24 for malformed tokens for which re.compile raises re.error.
MalformedRegexDroppedWhenReError ==
    (/\ LoadRulesReturned
     /\ Malformed(call.arg.tokens) \cup Malformed(call.arg.always_last) # {}
     /\ \A l \in {call.arg.tokens, call.arg.always_last} :
            \A i \in Malformed(l) : l[i] \in ReErrorTokens) =>
        /\ call.ret.exc = NoExc
        /\ call.ret.warnings = Cardinality(Malformed(call.arg.tokens))
                                   + Cardinality(Malformed(call.arg.always_last))
        /\ \A l \in {call.arg.tokens, call.arg.always_last} :
               \A i \in 1..Len(l) :
                   IsWellFormed(l[i]) =>
                       \E j \in 1..Len(call.ret.rules) : call.ret.rules[j] = RuleOf(l[i])
        /\ call.ret.rules = MergedRules(call.arg.tokens, call.arg.always_last)

(***************************************************************************)
(* Properties of FrameAssembler.push.                                      *)
(***************************************************************************)
\* text without the whitespace at its beginning and at its end
Trimmed(text) ==
    LET right == RightTrimmed(text)
        k == CHOOSE k \in 0..Len(right) :
                 /\ \A i \in 1..k : Ch(right, i) \in Whitespace
                 /\ k < Len(right) => Ch(right, k + 1) \notin Whitespace
    IN  SubSeq(right, k + 1, Len(right))

\* C25: an empty chunk changes nothing and returns no frame; a non-empty
\* chunk is appended and, if the whole buffer then satisfies the rule set,
\* push returns the trimmed buffer and leaves the buffer empty, so that the
\* next push starts from an empty buffer; otherwise it returns no frame and
\* keeps the accumulated text.
C25_PushEmitsAndClears ==
    (call.fn = "push" /\ call.calls > 0) =>
        LET whole == call.buf_before \o call.chunk
        IN  IF call.chunk = ""
            THEN /\ call.buf = call.buf_before
                 /\ call.t0 = call.t0_before
                 /\ call.out = None
            ELSE IF \E i \in 1..Len(call.rules) : RuleMatches(whole, call.rules[i])
            THEN call.out = Trimmed(whole) /\ call.buf = "" /\ ~call.t0
            ELSE call.out = None /\ call.buf = whole

\* "AB", then "C END" and a line end with rule END:END: the second push
\* returns "ABC END" and leaves the buffer empty
C25_Witness ==
    /\ call.fn = "push"
    /\ call.rules = <<BreakRule("END", "END")>>
    /\ call.buf_before = "AB"
    /\ call.chunk = "C END\r\n"
    /\ call.out = "ABC END"
    /\ call.buf = ""

(***************************************************************************)
(* Properties of _pick_best_line.                                          *)
(***************************************************************************)
HasAny(line, markers) == \E m \in markers : ContainsIgnoringCase(line, m)

\* the score of a line as the sum of its bonuses
LineScore(line) ==
    (IF HasAny(line, {"PASS", "FAIL"}) THEN 100 ELSE 0)
    + (IF HasAny(line, {"PASSED=1", "PASSED=0"}) THEN 30 ELSE 0)
    + (IF HasAny(line, {"ERRO", "TIMEOUT"}) THEN 50 ELSE 0)
    + (IF Len(line) > 0 /\ Ch(line, 1) = "$" THEN 10 ELSE 0)
    + ((IF Len(line) < 120 THEN Len(line) ELSE 120) \div 20)

\* C26: _pick_best_line returns the empty string when no lines were
\* collected, and otherwise a collected line whose score is maximal, the
\* score being +100 for PASS or FAIL, +30 for PASSED=1 or PASSED=0, +50 for
\* ERRO or TIMEOUT, +10 for starting with $, plus min(length, 120) divided
\* by 20.
C26_BestLineHasMaximalScore ==
    (call.fn = "pick_best_line" /\ call.returned) =>
        IF call.arg = << >>
        THEN call.ret = ""
        ELSE /\ \E i \in 1..Len(call.arg) : call.arg[i] = call.ret
             /\ \A i \in 1..Len(call.arg) : LineScore(call.arg[i]) <= LineScore(call.ret)

\* the line returned is not the first collected, which has a lower score
C26_Witness ==
    /\ call.fn = "pick_best_line"
    /\ call.returned
    /\ Len(call.arg) >= 2
    /\ call.ret = call.arg[2]
    /\ LineScore(call.arg[1]) < LineScore(call.ret)

(***************************************************************************)
(* Properties of send_text_and_wait.                                       *)
(***************************************************************************)
StwReturned ==
    call.fn = "send_text_and_wait" /\ call.pc = "done" /\ call.ret.exc = NoExc

\* C27: send_text_and_wait returns (True, response) when valid data was
\* received, and (False, message) on timeout (nothing but blanks received),
\* when the response contains FAIL/ERRO, or on a serial error.
C27_SendTextAndWaitResult ==
    StwReturned =>
        IF \/ call.error # NoExc
           \/ Trimmed(call.response) = ""
           \/ HasAny(call.response, {"FAIL", "ERRO"})
        THEN ~call.ret.ok
        ELSE call.ret.ok /\ call.ret.resp = Trimmed(call.response)

\* the same without the FAIL/ERRO case: (True, response) whenever anything
\* but blanks was received, (False, message) on timeout or serial error
SendTextAndWaitResultByData ==
    StwReturned =>
        IF call.error # NoExc \/ Trimmed(call.response) = ""
        THEN ~call.ret.ok
        ELSE call.ret.ok /\ call.ret.resp = Trimmed(call.response)

(***************************************************************************)
(* Properties of the reader loop on a byte stream.                         *)
(***************************************************************************)
\* the positions of the newlines of s
NewlinesOf(s) == {i \in 1..Len(s) : Ch(s, i) = "\n"}

\* the position of the k-th newline of s, 0 for k = 0
NthNewline(s, k) ==
    IF k = 0 THEN 0
    ELSE CHOOSE i \in NewlinesOf(s) :
             Cardinality({j \in NewlinesOf(s) : j < i}) = k - 1

\* the trimmed texts between consecutive newlines of s that are not empty
LinesOfStream(s) ==
    LET count == Cardinality(NewlinesOf(s))
        texts == [k \in 1..count |->
                     Trimmed(RemoveChar(SubSeq(s, NthNewline(s, k - 1) + 1,
                                               NthNewline(s, k) - 1), "\r"))]
        NotEmpty(t) == t # ""
    IN  SelectSeq(texts, NotEmpty)

\* the bytes of s after its last newline
AfterLastNewline(s) ==
    SubSeq(s, NthNewline(s, Cardinality(NewlinesOf(s))) + 1, Len(s))

Modes == {"Idle", "Listening", "Testing", "Error", "Stopped"}

\* C29: after every tick the mode is one of Idle, Listening, Testing, Error,
\* Stopped and agrees with the returned event: HOLD, SFC_TIMEOUT and
\* SFC_ERROR leave mode Listening with the chain inactive; SFC_OK leaves
\* mode Testing with the chain active; ERROR leaves mode Error; IDLE leaves
\* mode Testing exactly when the chain is active and Listening otherwise.
C29_ModeAgreesWithEvent ==
    /\ bridge.mode \in Modes
    /\ Ticked =>
           /\ tick.ev \in {"HOLD", "SFC_TIMEOUT", "SFC_ERROR"} =>
                  bridge.mode = "Listening" /\ ~bridge.chain_active
           /\ tick.ev = "SFC_OK" => bridge.mode = "Testing" /\ bridge.chain_active
           /\ tick.ev = "ERROR" => bridge.mode = "Error"
           /\ tick.ev = "IDLE" =>
                  /\ bridge.chain_active <=> bridge.mode = "Testing"
                  /\ ~bridge.chain_active <=> bridge.mode = "Listening"

\* a tick inside a chain found no frame: IDLE with mode Testing
C29_Witness ==
    /\ tick.ev = "IDLE"
    /\ tick.chain0
    /\ bridge.chain_active
    /\ bridge.mode = "Testing"

(***************************************************************************)
(* Leaving the Error mode.                                                 *)
(***************************************************************************)
\* the last tick met no failure: the port was not refused and nothing raised
NoFailureInTick ==
    /\ tick.exc = NoExc
    /\ tick.opened # "failed"
    /\ tick.sfc \notin {"failed", "raised"}
    /\ tick.obs # "raised"

\* C30: Error is not a terminal mode: when from some moment on the laser port
\* opens and no tick meets a failure, a bridge that is in Error eventually
\* leaves Error as run_forever keeps ticking (to go back to Listening and to
\* the next laser frame), with no restart and no config change needed
C30_ErrorIsNotTerminal ==
    (<>[]NoFailureInTick) => ((bridge.mode = "Error") ~> (bridge.mode # "Error"))

\* a tick leaves Error only by breaking on a config change; otherwise Error is
\* left by run_forever starting or ending
ErrorLeftOnlyByReloadBreakOrRunForever ==
    [][(bridge.mode = "Error" /\ bridge'.mode # "Error") =>
           \/ tick'.ev = "RELOAD_BREAK"
           \/ rf_pc = "called" /\ rf_pc' = "loop"
           \/ rf_pc = "finally" /\ rf_pc' = "not_running"]_vars

\* a tick that begins in Error, reopens the port and meets no config change
\* returns ERROR and stays in Error
ErrorTickStaysInError ==
    (Ticked /\ tick.mode0 = "Error" /\ tick.ev # "RELOAD_BREAK" /\ tick.ev # Raised) =>
        /\ tick.ev = "ERROR"
        /\ bridge.mode = "Error"

(***************************************************************************)
(* The result callback.                                                    *)
(***************************************************************************)
\* get_last_result()
get_last_result(b) == <<b.last_status, b.last_laser_req, b.last_sfc_resp>>

\* the tick forwarded its frame to SFC: send_text_and_wait was called
Forwarded == Ticked /\ tick.sfc # "not_called"

\* the callback was called once, with the frame as request and with the
\* status and response get_last_result now reports, and nothing was written
\* back to the laser before it ended
CalledOnceWithLastResult ==
    /\ tick.obs # "not_called"
    /\ tick.obs_args = get_last_result(bridge)
    /\ tick.obs_args[2] = tick.frame
    /\ tick.obs = "raised" => tick.tx = ""

\* C31: when a callback is set, a tick that forwards a complete laser frame to
\* SFC calls it exactly once, with the frame as request and the status and
\* response get_last_result reports afterwards, before any write-back; a tick
\* that returns IDLE, RELOAD_BREAK or ERROR on entry does not call it
C31_ResultCallbackOncePerFrame ==
    (Ticked /\ bridge.on_result) =>
        /\ Forwarded => CalledOnceWithLastResult
        /\ ~Forwarded => tick.obs = "not_called" /\ tick.obs_args = NoArgs

\* the same for the ticks whose SFC transaction returns (send_text_and_wait
\* raises nothing)
ResultCallbackOnceWhenSfcReturns ==
    (Ticked /\ bridge.on_result) =>
        /\ (Forwarded /\ tick.sfc # "raised") => CalledOnceWithLastResult
        /\ (~Forwarded \/ tick.sfc = "raised") =>
               tick.obs = "not_called" /\ tick.obs_args = NoArgs

\* without a callback nothing is called
NoCallbackNoCall ==
    (Ticked /\ ~bridge.on_result) => tick.obs = "not_called"

(***************************************************************************)
(* The status recorded at a hold point.                                    *)
(***************************************************************************)
\* C32: when a tick returns HOLD the recorded last status is PASS or FAIL,
\* never UNKNOWN, and it is FAIL when the reply contains PASSED=0
C32_HoldStatusIsPassOrFail ==
    (Ticked /\ tick.ev = "HOLD") =>
        /\ RegexSearch(HOLD_RX, bridge.last_sfc_resp)
        /\ bridge.last_status \in {"PASS", "FAIL"}
        /\ ContainsIgnoringCase(bridge.last_sfc_resp, "PASSED=0") =>
               bridge.last_status = "FAIL"

\* a tick returns HOLD on a reply with PASSED=1 and records PASS
C32_Witness ==
    /\ tick.ev = "HOLD"
    /\ Contains(bridge.last_sfc_resp, "PASSED=1")
    /\ bridge.last_status = "PASS"

\* every text matching the hold pattern is classified FAIL or PASS by
\* infer_status
HoldReplyClassified ==
    (call.fn = "infer_status" /\ call.ret # NotCalled
        /\ RegexSearch(HOLD_RX, call.arg)) =>
        /\ call.ret \in {"PASS", "FAIL"}
        /\ ContainsIgnoringCase(call.arg, "PASSED=0") => call.ret = "FAIL"

(***************************************************************************)
(* The status of a failed SFC transaction.                                 *)
(***************************************************************************)
\* send_text_and_wait returned at its deadline with no reply (line 1262)
NoReplyBeforeDeadline == bridge.last_sfc_resp = "No response (timeout)"

\* send_text_and_wait returned from its except clause: the serial layer
\* reported an error (lines 1264-1266)
SerialLayerError == StartsWith(bridge.last_sfc_resp, "Serial error: ")

\* C33: on a failed SFC transaction the bridge records TIMEOUT and returns
\* SFC_TIMEOUT exactly when no reply arrived before the deadline, and records
\* SFC_ERROR and returns SFC_ERROR exactly when the serial layer reported an
\* error, whatever the text of the error is
C33_TimeoutOrSfcError ==
    (Ticked /\ tick.sfc = "failed") =>
        /\ bridge.last_status = "TIMEOUT" <=> NoReplyBeforeDeadline
        /\ bridge.last_status = "SFC_ERROR" <=> SerialLayerError
        /\ tick.obs # "raised" =>
               /\ tick.ev = "SFC_TIMEOUT" <=> NoReplyBeforeDeadline
               /\ tick.ev = "SFC_ERROR" <=> SerialLayerError

\* the same for the serial errors whose text does not contain "timeout"
TimeoutOrSfcErrorByText ==
    (Ticked /\ tick.sfc = "failed"
        /\ ~(SerialLayerError /\ ContainsIgnoringCase(bridge.last_sfc_resp, "timeout"))) =>
        /\ NoReplyBeforeDeadline \/ SerialLayerError
        /\ bridge.last_status = "TIMEOUT" <=> NoReplyBeforeDeadline
        /\ bridge.last_status = "SFC_ERROR" <=> SerialLayerError
        /\ tick.obs # "raised" =>
               /\ tick.ev = "SFC_TIMEOUT" <=> NoReplyBeforeDeadline
               /\ tick.ev = "SFC_ERROR" <=> SerialLayerError

\* a serial error whose text contains "timeout" is recorded as TIMEOUT
SerialTimeoutTextIsTimeout ==
    (Ticked /\ tick.sfc = "failed" /\ SerialLayerError
        /\ ContainsIgnoringCase(bridge.last_sfc_resp, "timeout")) =>
        bridge.last_status = "TIMEOUT"

(***************************************************************************)
(* The transaction mark and lines emitted after it.                        *)
(***************************************************************************)
\* send_and_collect has taken its mark and has not returned
MarkTaken == sac.pc \in {"send", "loop"}

\* C34: a line the reader emits (appends to the ring buffer) after
\* snapshot_seq() has returned seq0 is contained in get_lines_since(seq0),
\* for every interleaving of the caller with the two steps of _emit_line: no
\* line arriving after the mark is skipped
C34_LineAfterMarkIsCollected ==
    [][(MarkTaken /\ sac'.seq0 = sac.seq0 /\ reader'.lines # reader.lines) =>
           /\ Last(reader'.lines).seq > sac.seq0
           /\ get_lines_since(reader', sac.seq0) # << >>
           /\ Last(get_lines_since(reader', sac.seq0)) = Last(reader'.lines).text]_vars

\* a line whose _emit_line begins after the mark gets a number above the
\* mark, and so does every line read from the port after the command was
\* written
LineBegunAfterMarkIsCollected ==
    /\ [][(MarkTaken /\ sac'.seq0 = sac.seq0 /\ reader'.seq # reader.seq) =>
              reader'.seq > sac.seq0]_vars
    /\ [](sac.pc = "loop" => sac.first > sac.seq0)

\* the line skipped is one whose counter was incremented before the mark:
\* its number is the mark
SkippedLineIsTheMark ==
    [][(MarkTaken /\ sac'.seq0 = sac.seq0 /\ reader'.lines # reader.lines
           /\ Last(reader'.lines).seq <= sac.seq0) =>
           /\ Last(reader'.lines).seq = sac.seq0
           /\ reader.emit_pc = "append"]_vars

(***************************************************************************)
(* What send_and_collect returns with ok=true.                             *)
(***************************************************************************)
\* send_and_collect returns ok=true in this step
ReturnsOk == sac.pc = "loop" /\ sac'.pc = "done" /\ sac'.result.ok

\* the positions of the buffered lines numbered after the mark
AfterMark == {i \in 1..Len(reader.lines) : reader.lines[i].seq > sac.seq0}

\* C35: when send_and_collect is called with an expect pattern and returns
\* ok=true while fewer than keep_lines lines have been numbered since the
\* mark, the returned lines contain a line matching the pattern and are the
\* texts of the buffered lines with a sequence number greater than the mark
C35_OkReturnsMatchAfterMark ==
    [][(ReturnsOk /\ sac.expect # None /\ reader.seq - sac.seq0 < KeepLines) =>
           /\ \E i \in 1..Len(sac'.result.lines) :
                  RegexSearch(sac.expect, sac'.result.lines[i])
           /\ Len(sac'.result.lines) = Cardinality(AfterMark)
           /\ \A j \in 1..Len(sac'.result.lines) :
                  LET i == Len(reader.lines) - Len(sac'.result.lines) + j
                  IN  /\ i \in AfterMark
                      /\ sac'.result.lines[j] = reader.lines[i].text]_vars

\* send_and_collect has returned ok=true with a matching line, the buffer
\* holding a line from before the mark
C35_Witness ==
    /\ sac.pc = "done"
    /\ sac.result.ok
    /\ sac.expect # None
    /\ sac.seq0 > 0
    /\ reader.seq - sac.seq0 < KeepLines
    /\ \E i \in 1..Len(sac.result.lines) : RegexSearch(sac.expect, sac.result.lines[i])

(***************************************************************************)
(* Completion by silence, without an expect pattern.                       *)
(***************************************************************************)
\* C36: when send_and_collect is called without an expect pattern and returns
\* ok=true, at least one line was received after the command was sent and is
\* returned: silence measured from a line of an earlier transaction never
\* completes the new transaction with an empty result
C36_OkWithoutExpectHasLine ==
    [][(ReturnsOk /\ sac.expect = None) =>
           /\ sac'.rcvd # << >>
           /\ sac'.result.lines # << >>]_vars

\* what ok=true without an expect pattern does mean: some line has been
\* emitted at some time, before or after the command, and the reader has been
\* silent for idle_after_last_rx since the last one
OkWithoutExpectAfterSilence ==
    [][(ReturnsOk /\ sac.expect = None) =>
           /\ reader.seq > 0
           /\ reader.last_rx_age # NoAge
           /\ reader.last_rx_age >= IdleAfter
           /\ sac'.result.lines = get_lines_since(reader, sac.seq0)]_vars

\* a reader that has never emitted a line does not complete a transaction
NoLineEverNoOk ==
    [][ReturnsOk => reader.seq > 0]_vars

(***************************************************************************)
(* Properties of FrameAssembler over push and reset.                       *)
(***************************************************************************)
\* the rule set is satisfied by text
RuleSetSatisfied(text, rules) == \E i \in 1..Len(rules) : RuleMatches(text, rules[i])

\* the last call was a push that returned no frame
PushReturnedNoFrame ==
    call.fn = "FrameAssembler" /\ call.op = "push" /\ call.out = None

\* C37: after any sequence of push and reset calls with a fixed rule set, the
\* start timestamp is set exactly when the buffer is non-empty, and whenever
\* push returns no frame the buffer held at that moment does not satisfy the
\* rule set
C37_TimestampAndNoFrame ==
    call.fn = "FrameAssembler" =>
        /\ call.t0 <=> call.buf # ""
        /\ PushReturnedNoFrame => ~RuleSetSatisfied(call.buf, call.rules)

\* C37 (amended): the start timestamp is set exactly when the buffer is
\* non-empty, and whenever push returns no frame the buffer held at that
\* moment is empty or does not satisfy the rule set
C37_TimestampAndNoFrameUnlessEmpty ==
    call.fn = "FrameAssembler" =>
        /\ call.t0 <=> call.buf # ""
        /\ PushReturnedNoFrame =>
               call.buf = "" \/ ~RuleSetSatisfied(call.buf, call.rules)

\* after a reset, a push of "AB" with rule END:END returns no frame and leaves
\* a buffer with its timestamp set
C37_Witness ==
    /\ PushReturnedNoFrame
    /\ call.calls > 1
    /\ call.rules = <<BreakRule("END", "END")>>
    /\ call.buf = "AB"
    /\ call.t0

(***************************************************************************)
(* The listener and the GUI flow share COM_LASER.                          *)
(***************************************************************************)
\* C38: while a GUI flow is running the COM_LASER listener holds no open
\* serial handle, for every interleaving of the listener loop with
\* open_flow_core_pause.
C38_NoHandleWhileFlowRunning ==
    app.flow_running => app.oflow_ser = None

\* what the code does keep: every pause leaves the handle closed at the
\* moment it returns
PauseClosesHandle ==
    [][(app.run_evt /\ ~app'.run_evt) => app'.oflow_ser = None]_vars

\* and the listener opens the port only after it saw no flow running
ListenerOpensAfterItsCheck ==
    [][(app.oflow_ser = None /\ app'.oflow_ser # None) => app.lis_pc = "open"]_vars

(***************************************************************************)
(* DONE events of flow_core.                                               *)
(***************************************************************************)
\* C39: every run of flow_core puts exactly one DONE event on the flow
\* queue, on the success path, on each failure path and on the exception
\* path alike.
C39_OneDonePerFlow ==
    \A k \in Flows : app.wk[k] = "ended" => app.dones[k] = 1

\* what the code does keep: a run that ended put one DONE, or two when the
\* except clause of flow_core ran
EndedFlowPutOneOrTwoDones ==
    \A k \in Flows : app.wk[k] = "ended" => app.dones[k] \in {1, 2}

\* a second DONE is put only by line 1963, after line 1962 put the first
SecondDoneOnlyInExcept ==
    [][\A k \in Flows :
          (app.dones[k] = 1 /\ app'.dones[k] = 2) => app.wk[k] = "except"]_vars

(***************************************************************************)
(* The listener after a flow.                                              *)
(***************************************************************************)
FlowOver ==
    /\ app.flows > 0
    /\ \A k \in Flows : app.wk[k] \in {"none", "ended"}
    /\ app.flow_q = 0
    /\ ~app.flow_running
    /\ app.ui_pc = "idle"
    /\ app.oflow_q = 0

\* no run of flow_core took an exception path
NoExceptionInFlow ==
    \A k \in Flows :
        app.dones[k] <= 1 /\ app.wk[k] \notin {"finally_raising", "raised", "except"}

\* C40: after a flow has ended (the finally block resumed the listener and
\* the UI poll cleared _flow_running) the listener eventually runs again,
\* unless the next flow starts: it is never left paused forever.
C40_ListenerResumesAfterFlow ==
    FlowOver ~> (app.run_evt \/ app.flow_running)

\* the same for flows that raised nothing: the listener pauses itself at line
\* 2449 when it reads _flow_running before the UI poll cleared it, and nothing
\* sets the run event afterwards
ListenerResumesAfterCleanFlow ==
    (FlowOver /\ NoExceptionInFlow) ~> (app.run_evt \/ app.flow_running)

\* what the code does keep: the finally block of flow_core sets the run event
FinallyResumes ==
    [][\A k \in Flows :
          (app.wk[k] \in {"finally", "finally_raising"} /\ app'.wk[k] # app.wk[k])
              => app'.run_evt]_vars

\* and after a flow the run event is cleared only by the listener itself or
\* by the start of another flow
RunEventClearedByListenerOrStart ==
    [][(app.run_evt /\ ~app'.run_evt)
          => (app.lis_pc \in {"check_flow", "detected"} \/ app.ui_pc = "pause")]_vars

====
